---- MODULE Spec2Model ----
(***************************************************************************)
(* A model of the bluehood sighting store and its analytics queries        *)
(* (db.py), the daemon's request handlers (daemon.py) and the device       *)
(* classifier (classifier.py).                                             *)
(*                                                                         *)
(* A Python str is a sequence of one-character strings, so that lower()    *)
(* and the substring test `in` are computed as the code computes them.     *)
(* Python's None for a str is the one-element sequence None, which no      *)
(* string of characters equals; None for an int is NoneInt.                *)
(***************************************************************************)
EXTENDS Integers, Sequences, FiniteSets, TLC

\* ------------------------------------------------------------------------
\* Bounds of the model
\* ------------------------------------------------------------------------
\* the wall clock (datetime.now()) runs from 1 to MaxClock
MaxClock == 2
\* number of upsert_device calls started over a behaviour
MaxCalls == 3
\* number of cleanup_old_sightings runs over a behaviour
MaxOps == 1
\* number of requests the daemon's clients send over a behaviour
MaxRequests == 2
\* the longest row list get_dwell_time is given with every gap of DwellGaps
MaxSightings == 6
\* the longest row list get_dwell_time is given at all
MaxRun == 12
\* the most readings get_proximity_stats is given
MaxReadings == 16
\* the most sightings api_device is given
MaxSightingCount == 151
\* request lines a client writes
MaxSends == 3
\* scan_complete events
MaxEvents == 1
\* steps of 12 hours the web server's clock takes
MaxHalfDays == 3
\* session tokens issued
MaxTokens == 2

\* ------------------------------------------------------------------------
\* Python values
\* ------------------------------------------------------------------------
None == <<"None">>
NoneInt == -1

\* truth value of an Optional[str]: None and "" are falsy
Truthy(s) == s # None /\ s # <<>>
\* truth value of an Optional[int]: None and 0 are falsy
TruthyInt(n) == n # NoneInt /\ n # 0

LowerChar ==
  ("A" :> "a") @@ ("B" :> "b") @@ ("C" :> "c") @@ ("D" :> "d") @@ ("E" :> "e") @@ ("F" :> "f") @@ ("G" :> "g") @@ ("H" :> "h") @@ ("I" :> "i") @@ ("J" :> "j") @@ ("K" :> "k") @@ ("L" :> "l") @@ ("M" :> "m") @@ ("N" :> "n") @@ ("O" :> "o") @@ ("P" :> "p") @@ ("Q" :> "q") @@ ("R" :> "r") @@ ("S" :> "s") @@ ("T" :> "t") @@ ("U" :> "u") @@ ("V" :> "v") @@ ("W" :> "w") @@ ("X" :> "x") @@ ("Y" :> "y") @@ ("Z" :> "z")

\* str.lower()
lower(s) == [i \in 1..Len(s) |-> IF s[i] \in DOMAIN LowerChar THEN LowerChar[s[i]] ELSE s[i]]

\* the substring test  sub in s
Contains(s, sub) ==
  \E i \in 0..(Len(s) - Len(sub)) : SubSeq(s, i + 1, i + Len(sub)) = sub

\* any(x in s for x in subs)
AnyIn(s, subs) == \E x \in subs : Contains(s, x)

\* ------------------------------------------------------------------------
\* classifier.py
\* ------------------------------------------------------------------------
TYPE_PHONE == <<"p", "h", "o", "n", "e">>
TYPE_TABLET == <<"t", "a", "b", "l", "e", "t">>
TYPE_LAPTOP == <<"l", "a", "p", "t", "o", "p">>
TYPE_COMPUTER == <<"c", "o", "m", "p", "u", "t", "e", "r">>
TYPE_WATCH == <<"w", "a", "t", "c", "h">>
TYPE_HEADPHONES == <<"a", "u", "d", "i", "o">>
TYPE_SPEAKER == <<"s", "p", "e", "a", "k", "e", "r">>
TYPE_TV == <<"t", "v">>
TYPE_VEHICLE == <<"v", "e", "h", "i", "c", "l", "e">>
TYPE_SMART_HOME == <<"s", "m", "a", "r", "t">>
TYPE_WEARABLE == <<"w", "e", "a", "r", "a", "b", "l", "e">>
TYPE_GAMING == <<"g", "a", "m", "i", "n", "g">>
TYPE_CAMERA == <<"c", "a", "m", "e", "r", "a">>
TYPE_PRINTER == <<"p", "r", "i", "n", "t", "e", "r">>
TYPE_NETWORK == <<"n", "e", "t", "w", "o", "r", "k">>
TYPE_UNKNOWN == <<"u", "n", "k", "n", "o", "w", "n">>

VENDOR_PATTERNS ==
  <<
    <<<<"a", "p", "p", "l", "e">>, TYPE_PHONE>>,
    <<<<"s", "a", "m", "s", "u", "n", "g", " ", "e", "l", "e", "c", "t", "r", "o", "n", "i", "c", "s">>, TYPE_PHONE>>,
    <<<<"x", "i", "a", "o", "m", "i">>, TYPE_PHONE>>,
    <<<<"h", "u", "a", "w", "e", "i">>, TYPE_PHONE>>,
    <<<<"o", "n", "e", "p", "l", "u", "s">>, TYPE_PHONE>>,
    <<<<"o", "p", "p", "o">>, TYPE_PHONE>>,
    <<<<"v", "i", "v", "o">>, TYPE_PHONE>>,
    <<<<"r", "e", "a", "l", "m", "e">>, TYPE_PHONE>>,
    <<<<"m", "o", "t", "o", "r", "o", "l", "a">>, TYPE_PHONE>>,
    <<<<"n", "o", "k", "i", "a">>, TYPE_PHONE>>,
    <<<<"l", "g", " ", "e", "l", "e", "c", "t", "r", "o", "n", "i", "c", "s">>, TYPE_PHONE>>,
    <<<<"z", "t", "e">>, TYPE_PHONE>>,
    <<<<"g", "o", "o", "g", "l", "e">>, TYPE_PHONE>>,
    <<<<"f", "a", "i", "r", "p", "h", "o", "n", "e">>, TYPE_PHONE>>,
    <<<<"n", "o", "t", "h", "i", "n", "g">>, TYPE_PHONE>>,
    <<<<"d", "e", "l", "l">>, TYPE_LAPTOP>>,
    <<<<"l", "e", "n", "o", "v", "o">>, TYPE_LAPTOP>>,
    <<<<"h", "e", "w", "l", "e", "t", "t", " ", "p", "a", "c", "k", "a", "r", "d">>, TYPE_LAPTOP>>,
    <<<<"h", "p", " ", "i", "n", "c">>, TYPE_LAPTOP>>,
    <<<<"a", "s", "u", "s">>, TYPE_LAPTOP>>,
    <<<<"a", "c", "e", "r">>, TYPE_LAPTOP>>,
    <<<<"m", "i", "c", "r", "o", "s", "o", "f", "t">>, TYPE_COMPUTER>>,
    <<<<"i", "n", "t", "e", "l", " ", "c", "o", "r", "p", "o", "r", "a", "t", "e">>, TYPE_COMPUTER>>,
    <<<<"g", "i", "g", "a", "b", "y", "t", "e">>, TYPE_COMPUTER>>,
    <<<<"m", "s", "i">>, TYPE_COMPUTER>>,
    <<<<"b", "o", "s", "e">>, TYPE_HEADPHONES>>,
    <<<<"s", "o", "n", "y">>, TYPE_HEADPHONES>>,
    <<<<"s", "e", "n", "n", "h", "e", "i", "s", "e", "r">>, TYPE_HEADPHONES>>,
    <<<<"j", "a", "b", "r", "a">>, TYPE_HEADPHONES>>,
    <<<<"b", "e", "a", "t", "s">>, TYPE_HEADPHONES>>,
    <<<<"j", "b", "l">>, TYPE_SPEAKER>>,
    <<<<"h", "a", "r", "m", "a", "n">>, TYPE_SPEAKER>>,
    <<<<"b", "a", "n", "g", " ", "&", " ", "o", "l", "u", "f", "s", "e", "n">>, TYPE_SPEAKER>>,
    <<<<"s", "o", "n", "o", "s">>, TYPE_SPEAKER>>,
    <<<<"s", "k", "u", "l", "l", "c", "a", "n", "d", "y">>, TYPE_HEADPHONES>>,
    <<<<"a", "u", "d", "i", "o", "-", "t", "e", "c", "h", "n", "i", "c", "a">>, TYPE_HEADPHONES>>,
    <<<<"p", "l", "a", "n", "t", "r", "o", "n", "i", "c", "s">>, TYPE_HEADPHONES>>,
    <<<<"a", "n", "k", "e", "r">>, TYPE_HEADPHONES>>,
    <<<<"f", "i", "t", "b", "i", "t">>, TYPE_WATCH>>,
    <<<<"g", "a", "r", "m", "i", "n">>, TYPE_WATCH>>,
    <<<<"p", "o", "l", "a", "r">>, TYPE_WATCH>>,
    <<<<"s", "u", "u", "n", "t", "o">>, TYPE_WATCH>>,
    <<<<"w", "h", "o", "o", "p">>, TYPE_WEARABLE>>,
    <<<<"o", "u", "r", "a">>, TYPE_WEARABLE>>,
    <<<<"a", "m", "a", "z", "o", "n">>, TYPE_SMART_HOME>>,
    <<<<"r", "i", "n", "g">>, TYPE_SMART_HOME>>,
    <<<<"n", "e", "s", "t">>, TYPE_SMART_HOME>>,
    <<<<"p", "h", "i", "l", "i", "p", "s">>, TYPE_SMART_HOME>>,
    <<<<"i", "k", "e", "a">>, TYPE_SMART_HOME>>,
    <<<<"t", "u", "y", "a">>, TYPE_SMART_HOME>>,
    <<<<"s", "h", "e", "l", "l", "y">>, TYPE_SMART_HOME>>,
    <<<<"s", "w", "i", "t", "c", "h", "b", "o", "t">>, TYPE_SMART_HOME>>,
    <<<<"a", "q", "a", "r", "a">>, TYPE_SMART_HOME>>,
    <<<<"w", "y", "z", "e">>, TYPE_SMART_HOME>>,
    <<<<"e", "u", "f", "y">>, TYPE_SMART_HOME>>,
    <<<<"e", "c", "o", "b", "e", "e">>, TYPE_SMART_HOME>>,
    <<<<"h", "u", "e">>, TYPE_SMART_HOME>>,
    <<<<"s", "m", "a", "r", "t", "t", "h", "i", "n", "g", "s">>, TYPE_SMART_HOME>>,
    <<<<"t", "p", "-", "l", "i", "n", "k">>, TYPE_SMART_HOME>>,
    <<<<"m", "e", "r", "o", "s", "s">>, TYPE_SMART_HOME>>,
    <<<<"g", "o", "v", "e", "e">>, TYPE_SMART_HOME>>,
    <<<<"l", "i", "f", "x">>, TYPE_SMART_HOME>>,
    <<<<"n", "a", "n", "o", "l", "e", "a", "f">>, TYPE_SMART_HOME>>,
    <<<<"y", "a", "l", "e">>, TYPE_SMART_HOME>>,
    <<<<"a", "u", "g", "u", "s", "t">>, TYPE_SMART_HOME>>,
    <<<<"s", "c", "h", "l", "a", "g", "e">>, TYPE_SMART_HOME>>,
    <<<<"r", "o", "k", "u">>, TYPE_TV>>,
    <<<<"v", "i", "z", "i", "o">>, TYPE_TV>>,
    <<<<"t", "c", "l">>, TYPE_TV>>,
    <<<<"h", "i", "s", "e", "n", "s", "e">>, TYPE_TV>>,
    <<<<"c", "h", "r", "o", "m", "e", "c", "a", "s", "t">>, TYPE_TV>>,
    <<<<"f", "i", "r", "e", " ", "t", "v">>, TYPE_TV>>,
    <<<<"t", "e", "s", "l", "a">>, TYPE_VEHICLE>>,
    <<<<"f", "o", "r", "d">>, TYPE_VEHICLE>>,
    <<<<"g", "m">>, TYPE_VEHICLE>>,
    <<<<"v", "o", "l", "k", "s", "w", "a", "g", "e", "n">>, TYPE_VEHICLE>>,
    <<<<"b", "m", "w">>, TYPE_VEHICLE>>,
    <<<<"m", "e", "r", "c", "e", "d", "e", "s">>, TYPE_VEHICLE>>,
    <<<<"a", "u", "d", "i">>, TYPE_VEHICLE>>,
    <<<<"t", "o", "y", "o", "t", "a">>, TYPE_VEHICLE>>,
    <<<<"h", "o", "n", "d", "a">>, TYPE_VEHICLE>>,
    <<<<"n", "i", "s", "s", "a", "n">>, TYPE_VEHICLE>>,
    <<<<"h", "y", "u", "n", "d", "a", "i">>, TYPE_VEHICLE>>,
    <<<<"k", "i", "a">>, TYPE_VEHICLE>>,
    <<<<"v", "o", "l", "v", "o">>, TYPE_VEHICLE>>,
    <<<<"r", "i", "v", "i", "a", "n">>, TYPE_VEHICLE>>,
    <<<<"l", "u", "c", "i", "d">>, TYPE_VEHICLE>>,
    <<<<"h", "a", "r", "l", "e", "y">>, TYPE_VEHICLE>>,
    <<<<"c", "o", "n", "t", "i", "n", "e", "n", "t", "a", "l", " ", "a", "u", "t", "o">>, TYPE_VEHICLE>>,
    <<<<"b", "o", "s", "c", "h">>, TYPE_VEHICLE>>,
    <<<<"d", "e", "n", "s", "o">>, TYPE_VEHICLE>>,
    <<<<"n", "i", "n", "t", "e", "n", "d", "o">>, TYPE_GAMING>>,
    <<<<"p", "l", "a", "y", "s", "t", "a", "t", "i", "o", "n">>, TYPE_GAMING>>,
    <<<<"x", "b", "o", "x">>, TYPE_GAMING>>,
    <<<<"v", "a", "l", "v", "e">>, TYPE_GAMING>>,
    <<<<"r", "a", "z", "e", "r">>, TYPE_GAMING>>,
    <<<<"s", "t", "e", "e", "l", "s", "e", "r", "i", "e", "s">>, TYPE_GAMING>>,
    <<<<"l", "o", "g", "i", "t", "e", "c", "h">>, TYPE_GAMING>>,
    <<<<"g", "o", "p", "r", "o">>, TYPE_CAMERA>>,
    <<<<"c", "a", "n", "o", "n">>, TYPE_CAMERA>>,
    <<<<"n", "i", "k", "o", "n">>, TYPE_CAMERA>>,
    <<<<"d", "j", "i">>, TYPE_CAMERA>>,
    <<<<"i", "n", "s", "t", "a", "3", "6", "0">>, TYPE_CAMERA>>,
    <<<<"e", "p", "s", "o", "n">>, TYPE_PRINTER>>,
    <<<<"b", "r", "o", "t", "h", "e", "r">>, TYPE_PRINTER>>,
    <<<<"x", "e", "r", "o", "x">>, TYPE_PRINTER>>,
    <<<<"c", "i", "s", "c", "o">>, TYPE_NETWORK>>,
    <<<<"n", "e", "t", "g", "e", "a", "r">>, TYPE_NETWORK>>,
    <<<<"u", "b", "i", "q", "u", "i", "t", "i">>, TYPE_NETWORK>>,
    <<<<"a", "r", "u", "b", "a">>, TYPE_NETWORK>>,
    <<<<"l", "i", "n", "k", "s", "y", "s">>, TYPE_NETWORK>>,
    <<<<"a", "s", "u", "s", " ", "r", "o", "u", "t", "e", "r">>, TYPE_NETWORK>>,
    <<<<"e", "e", "r", "o">>, TYPE_NETWORK>>,
    <<<<"o", "r", "b", "i">>, TYPE_NETWORK>>
  >>

\* the name rules of classify_device, in the order of the if statements
NAME_RULES ==
  <<
    <<{<<"i", "p", "h", "o", "n", "e">>, <<"a", "n", "d", "r", "o", "i", "d">>, <<"p", "i", "x", "e", "l">>, <<"g", "a", "l", "a", "x", "y", " ", "s">>, <<"g", "a", "l", "a", "x", "y", " ", "z">>}, TYPE_PHONE>>,
    <<{<<"i", "p", "a", "d">>, <<"t", "a", "b">>, <<"t", "a", "b", "l", "e", "t">>}, TYPE_TABLET>>,
    <<{<<"m", "a", "c", "b", "o", "o", "k">>, <<"t", "h", "i", "n", "k", "p", "a", "d">>, <<"x", "p", "s">>, <<"l", "a", "p", "t", "o", "p">>}, TYPE_LAPTOP>>,
    <<{<<"i", "m", "a", "c">>, <<"m", "a", "c", " ", "m", "i", "n", "i">>, <<"m", "a", "c", " ", "p", "r", "o">>, <<"d", "e", "s", "k", "t", "o", "p">>}, TYPE_COMPUTER>>,
    <<{<<"w", "a", "t", "c", "h">>, <<"b", "a", "n", "d">>, <<"m", "i", " ", "b", "a", "n", "d">>}, TYPE_WATCH>>,
    <<{<<"a", "i", "r", "p", "o", "d">>, <<"b", "u", "d", "s">>, <<"e", "a", "r", "b", "u", "d", "s">>, <<"h", "e", "a", "d", "p", "h", "o", "n", "e">>}, TYPE_HEADPHONES>>,
    <<{<<"h", "o", "m", "e", "p", "o", "d">>, <<"e", "c", "h", "o">>, <<"s", "p", "e", "a", "k", "e", "r">>}, TYPE_SPEAKER>>,
    <<{<<"t", "v">>, <<"r", "o", "k", "u">>, <<"f", "i", "r", "e", "s", "t", "i", "c", "k">>, <<"c", "h", "r", "o", "m", "e", "c", "a", "s", "t">>}, TYPE_TV>>,
    <<{<<"c", "a", "r">>, <<"v", "e", "h", "i", "c", "l", "e">>, <<"m", "o", "d", "e", "l", " ", "3">>, <<"m", "o", "d", "e", "l", " ", "y">>, <<"m", "o", "d", "e", "l", " ", "s">>}, TYPE_VEHICLE>>
  >>

\* for pattern, device_type in VENDOR_PATTERNS: if pattern in vendor_lower
VendorMatches(vendor_lower) ==
  {i \in 1..Len(VENDOR_PATTERNS) : Contains(vendor_lower, VENDOR_PATTERNS[i][1])}

\* the chain of if any(...) statements on name_lower
NameMatches(name_lower) ==
  {i \in 1..Len(NAME_RULES) : AnyIn(name_lower, NAME_RULES[i][1])}

Min(S) == CHOOSE x \in S : \A y \in S : x <= y
Max(S) == CHOOSE x \in S : \A y \in S : x >= y

classify_device(vendor, name) ==
  IF ~Truthy(vendor) THEN TYPE_UNKNOWN
  ELSE LET byVendor == VendorMatches(lower(vendor)) IN
       IF byVendor # {} THEN VENDOR_PATTERNS[Min(byVendor)][2]
       ELSE IF ~Truthy(name) THEN TYPE_UNKNOWN
       ELSE LET byName == NameMatches(lower(name)) IN
            IF byName # {} THEN NAME_RULES[Min(byName)][2]
            ELSE TYPE_UNKNOWN

\* ------------------------------------------------------------------------
\* Inputs
\* ------------------------------------------------------------------------
Macs == {"AA:BB:CC:DD:EE:01", "AA:BB:CC:DD:EE:02"}
\* the address in range of the scans
ScanMacs == {"AA:BB:CC:DD:EE:01"}
\* concurrent callers of upsert_device (each opens its own connection); a new
\* call takes the first free one
Procs == {1, 2}
\* client connections of the daemon's socket server
Clients == {"c1"}
NoProc == 0

Sonos == <<"S", "o", "n", "o", "s", " ", "I", "n", "c">>
Acme == <<"A", "c", "m", "e">>
MacBookPro == <<"M", "a", "c", "B", "o", "o", "k", " ", "P", "r", "o">>

\* the arguments a caller hands to upsert_device
Observations ==
  {[vendor |-> None, service_uuids |-> {}, bt_type |-> "ble", device_class |-> NoneInt],
   [vendor |-> Sonos, service_uuids |-> {"180f"}, bt_type |-> "ble", device_class |-> NoneInt],
   [vendor |-> Acme, service_uuids |-> {"180a"}, bt_type |-> "classic", device_class |-> 7936]}
\* the vendor _get_vendor finds for a scanned device
VendorInputs == {None, Sonos}
NameInputs == {MacBookPro}
TypeInputs == {TYPE_PHONE}
DaysInputs == {0, 1}

\* ------------------------------------------------------------------------
\* State
\* ------------------------------------------------------------------------
VARIABLES
  clock,       \* datetime.now()
  devices,     \* table devices as every connection reads it: mac -> row
  sightings,   \* table sightings as every connection reads it
  wdevices,    \* table devices inside the open write transaction
  wsightings,  \* table sightings inside the open write transaction
  lock,        \* the connection that holds SQLite's write lock
  calls,       \* the upsert_device call of each caller
  lists,       \* the 'list' request of each client connection
  ncalls,      \* upsert_device calls started
  nops,        \* cleanup_old_sightings runs
  nreqs,       \* requests the daemon's clients have sent
  hist,        \* per mac, the arguments of the committed upsert_device calls
  pruned,      \* per mac, the rows cleanup_old_sightings has deleted
  human,       \* per mac, the device_type the operator set last
  cl,          \* a call of classify_device: arguments and result
  dw,          \* a call of get_dwell_time: rows selected, arguments, result
  px,          \* a call of get_proximity_stats: rows selected and result
  co,          \* a call of get_correlated_devices: tables, arguments, result
  nclassify,   \* per mac, the classify_device calls the 'list' requests made
  pt,          \* a call of api_device: the data it read and the pattern
  reqs,        \* lines the client has written that the daemon has not read
  resps,       \* lines the daemon has written that the client has not read
  snd,         \* the send_command calls of the client's coroutines
  waiter,      \* the coroutine blocked in reader.readline()
  answered,    \* request -> number of response lines written for it
  nsent,       \* request lines written so far
  nevents,     \* scan_complete events so far
  web          \* WebServer: settings.auth_enabled, _sessions and the last answer

vars == <<clock, devices, sightings, wdevices, wsightings, lock, calls, lists,
          ncalls, nops, nreqs, hist, pruned, human, cl, dw, px, co, nclassify,
          pt, reqs, resps, snd, waiter, answered, nsent, nevents, web>>

storeVars == <<clock, devices, sightings, wdevices, wsightings, lock, calls,
               lists, ncalls, nops, nreqs, hist, pruned, human, nclassify>>

\* a row of table devices (SCHEMA and the migrations of init_db)
EmptyRow ==
  [vendor |-> None, friendly_name |-> None, device_type |-> None,
   ignored |-> FALSE, first_seen |-> NoneInt, last_seen |-> NoneInt,
   total_sightings |-> 0, service_uuids |-> {}, bt_type |-> "ble",
   device_class |-> NoneInt, watched |-> FALSE, group_id |-> NoneInt,
   notes |-> None]

IdleCall ==
  [pc |-> "idle", mac |-> "", vendor |-> None, service_uuids |-> {},
   bt_type |-> "ble", device_class |-> NoneInt, now |-> 0,
   is_new |-> FALSE, existing |-> EmptyRow]

IdleList == [pc |-> "idle", todo |-> <<>>]

IdleClassify == [pc |-> "idle", vendor |-> None, name |-> None, result |-> None]

IdleQuery == [pc |-> "idle"]

analyticsVars == <<dw, px, co>>

\* the control socket between the daemon and a client
wireVars == <<reqs, resps, snd, waiter, answered, nsent, nevents>>

\* the state of the web server and of the control socket
edgeVars == <<pt, wireVars, web>>

\* the coroutines of the client that call send_command: the periodic refresh
\* and a user action
Callers == {1, 2}
NoCaller == 0

IdleSend == [pc |-> "idle", id |-> 0, got |-> 0, error |-> FALSE]

InitWire ==
  /\ reqs = <<>>
  /\ resps = <<>>
  /\ snd = [c \in Callers |-> IdleSend]
  /\ waiter = NoCaller
  /\ answered = [k \in 1..MaxSends |-> 0]
  /\ nsent = 0
  /\ nevents = 0

NoAnswer == [path |-> "", auth_enabled |-> FALSE, valid |-> FALSE, status |-> 0,
             data |-> FALSE]

\* WebServer.__init__ and the default settings: authentication is off
InitWeb ==
  web = [auth_enabled |-> FALSE, sessions |-> <<>>, now |-> 0, ntokens |-> 0,
         last |-> NoAnswer]

InitEdge ==
  /\ pt = IdleQuery
  /\ InitWire
  /\ InitWeb

InitAnalytics ==
  /\ dw = IdleQuery
  /\ px = IdleQuery
  /\ co = IdleQuery

InitStore ==
  /\ clock = 1
  /\ devices = <<>>
  /\ sightings = <<>>
  /\ wdevices = <<>>
  /\ wsightings = <<>>
  /\ lock = NoProc
  /\ calls = [p \in Procs |-> IdleCall]
  /\ lists = [c \in Clients |-> IdleList]
  /\ ncalls = 0
  /\ nops = 0
  /\ nreqs = 0
  /\ hist = [m \in Macs |-> <<>>]
  /\ pruned = [m \in Macs |-> 0]
  /\ human = [m \in Macs |-> None]
  /\ nclassify = [m \in Macs |-> 0]

Init ==
  /\ InitStore
  /\ cl = IdleClassify
  /\ InitAnalytics
  /\ InitEdge

\* ------------------------------------------------------------------------
\* db.py: upsert_device
\* ------------------------------------------------------------------------
\* now = datetime.now(): the clock advances between any two steps
Tick ==
  /\ clock < MaxClock
  /\ clock' = clock + 1
  /\ UNCHANGED <<devices, sightings, wdevices, wsightings, lock, calls, lists,
                 ncalls, nops, nreqs, hist, pruned, human, cl, dw, px, co, nclassify, edgeVars>>

\* the call is made: now is read before the connection is opened
UpsertCall(p, mac, vendor, service_uuids, bt_type, device_class) ==
  /\ calls[p].pc = "idle"
  /\ \A q \in Procs : q < p => calls[q].pc # "idle"
  /\ ncalls < MaxCalls
  /\ ncalls' = ncalls + 1
  /\ calls' = [calls EXCEPT ![p] =
       [pc |-> "select", mac |-> mac, vendor |-> vendor,
        service_uuids |-> service_uuids, bt_type |-> bt_type,
        device_class |-> device_class, now |-> clock,
        is_new |-> FALSE, existing |-> EmptyRow]]
  /\ UNCHANGED <<clock, devices, sightings, wdevices, wsightings, lock, lists,
                 nops, nreqs, hist, pruned, human, cl, dw, px, co, nclassify, edgeVars>>

\* SELECT * FROM devices WHERE mac = ?  (outside any transaction)
UpsertSelect(p) ==
  /\ calls[p].pc = "select"
  /\ calls' = [calls EXCEPT
       ![p].pc = "write",
       ![p].is_new = calls[p].mac \notin DOMAIN devices,
       ![p].existing = IF calls[p].mac \in DOMAIN devices
                       THEN devices[calls[p].mac] ELSE EmptyRow]
  /\ UNCHANGED <<clock, devices, sightings, wdevices, wsightings, lock, lists,
                 ncalls, nops, nreqs, hist, pruned, human, cl, dw, px, co, nclassify, edgeVars>>

\* UpdatedRow without  total_sightings = total_sightings + 1
UpdatedRow_NoCount(cur, c) ==
  [cur EXCEPT
     !.last_seen = c.now,
     !.vendor = IF Truthy(c.vendor) /\ ~Truthy(c.existing.vendor)
                THEN c.vendor ELSE @,
     !.service_uuids = IF c.service_uuids # {}
                       THEN c.existing.service_uuids \cup c.service_uuids ELSE @,
     !.bt_type = IF c.bt_type = "classic" /\ c.existing.bt_type = "ble" THEN "both"
                 ELSE IF c.bt_type = "ble" /\ c.existing.bt_type = "classic" THEN "both"
                 ELSE @,
     !.device_class = IF TruthyInt(c.device_class) /\ ~TruthyInt(c.existing.device_class)
                      THEN c.device_class ELSE @]

\* UpdatedRow storing the mode of the latest sighting instead of "both"
UpdatedRow_LatestMode(cur, c) ==
  [cur EXCEPT
     !.last_seen = c.now,
     !.total_sightings = @ + 1,
     !.vendor = IF Truthy(c.vendor) /\ ~Truthy(c.existing.vendor)
                THEN c.vendor ELSE @,
     !.service_uuids = IF c.service_uuids # {}
                       THEN c.existing.service_uuids \cup c.service_uuids ELSE @,
     !.bt_type = c.bt_type,
     !.device_class = IF TruthyInt(c.device_class) /\ ~TruthyInt(c.existing.device_class)
                      THEN c.device_class ELSE @]

\* the row UPDATE devices SET ... WHERE mac = ? leaves: the SET list is built
\* from the row read by the SELECT, total_sightings + 1 is evaluated by SQL
\* UpdatedRow writing back the whole row the SELECT read
UpdatedRow_WholeRow(cur, c) ==
  [c.existing EXCEPT
     !.last_seen = c.now,
     !.total_sightings = cur.total_sightings + 1,
     !.vendor = IF Truthy(c.vendor) /\ ~Truthy(c.existing.vendor)
                THEN c.vendor ELSE cur.vendor,
     !.service_uuids = IF c.service_uuids # {}
                       THEN c.existing.service_uuids \cup c.service_uuids
                       ELSE cur.service_uuids,
     !.bt_type = cur.bt_type,
     !.device_class = cur.device_class]

UpdatedRow(cur, c) ==
  [cur EXCEPT
     !.last_seen = c.now,
     !.total_sightings = @ + 1,
     !.vendor = IF Truthy(c.vendor) /\ ~Truthy(c.existing.vendor)
                THEN c.vendor ELSE @,
     !.service_uuids = IF c.service_uuids # {}
                       THEN c.existing.service_uuids \cup c.service_uuids ELSE @,
     !.bt_type = IF c.bt_type = "classic" /\ c.existing.bt_type = "ble" THEN "both"
                 ELSE IF c.bt_type = "ble" /\ c.existing.bt_type = "classic" THEN "both"
                 ELSE @,
     !.device_class = IF TruthyInt(c.device_class) /\ ~TruthyInt(c.existing.device_class)
                      THEN c.device_class ELSE @]

\* the row INSERT INTO devices (...) VALUES (?, ?, ?, ?, 1, ?, ?, ?) creates
InsertedRow(c) ==
  [EmptyRow EXCEPT
     !.vendor = c.vendor,
     !.first_seen = c.now,
     !.last_seen = c.now,
     !.total_sightings = 1,
     !.service_uuids = c.service_uuids,
     !.bt_type = c.bt_type,
     !.device_class = c.device_class]

\* Rollback that keeps the statements already executed
Rollback_KeepsWrites(p) ==
  /\ UNCHANGED <<wdevices, wsightings>>
  /\ lock' = NoProc
  /\ calls' = [calls EXCEPT ![p] = IdleCall]

\* the exception leaves the async with block: the connection is closed and its
\* open transaction rolled back
Rollback(p) ==
  /\ wdevices' = devices
  /\ wsightings' = sightings
  /\ lock' = NoProc
  /\ calls' = [calls EXCEPT ![p] = IdleCall]

\* UPDATE devices ... or INSERT INTO devices ...: the statement opens the
\* write transaction; an INSERT of a mac that has a row by now violates the
\* primary key
\* UpsertWrite without the PRIMARY KEY of devices.mac
UpsertWrite_NoPrimaryKey(p) ==
  /\ calls[p].pc = "write"
  /\ lock = NoProc
  /\ LET c == calls[p] IN
       /\ wdevices' = IF ~c.is_new
                      THEN [wdevices EXCEPT ![c.mac] = UpdatedRow(wdevices[c.mac], c)]
                      ELSE (c.mac :> InsertedRow(c)) @@ wdevices
       /\ lock' = p
       /\ calls' = [calls EXCEPT ![p].pc = "sighting"]
       /\ UNCHANGED wsightings
  /\ UNCHANGED <<clock, devices, sightings, lists, ncalls, nops, nreqs, hist, pruned,
                 human, cl, dw, px, co, nclassify, edgeVars>>

UpsertWrite(p) ==
  /\ calls[p].pc = "write"
  /\ lock = NoProc
  /\ LET c == calls[p] IN
       IF ~c.is_new
       THEN /\ wdevices' = [wdevices EXCEPT ![c.mac] = UpdatedRow(wdevices[c.mac], c)]
            /\ lock' = p
            /\ calls' = [calls EXCEPT ![p].pc = "sighting"]
            /\ UNCHANGED wsightings
       ELSE IF c.mac \in DOMAIN wdevices
       THEN Rollback(p)
       ELSE /\ wdevices' = (c.mac :> InsertedRow(c)) @@ wdevices
            /\ lock' = p
            /\ calls' = [calls EXCEPT ![p].pc = "sighting"]
            /\ UNCHANGED wsightings
  /\ UNCHANGED <<clock, devices, sightings, lists, ncalls, nops, nreqs, hist, pruned,
                 human, cl, dw, px, co, nclassify, edgeVars>>

\* INSERT INTO sightings (mac, timestamp, rssi) VALUES (?, ?, ?)
UpsertSighting(p) ==
  /\ calls[p].pc = "sighting"
  /\ lock = p
  /\ wsightings' = Append(wsightings, [mac |-> calls[p].mac, timestamp |-> calls[p].now])
  /\ calls' = [calls EXCEPT ![p].pc = "commit"]
  /\ UNCHANGED <<clock, devices, sightings, wdevices, lock, lists, ncalls, nops,
                 nreqs, hist, pruned, human, cl, dw, px, co, nclassify, edgeVars>>

\* await db.commit(), then get_device(mac) and return
UpsertCommit(p) ==
  /\ calls[p].pc = "commit"
  /\ lock = p
  /\ devices' = wdevices
  /\ sightings' = wsightings
  /\ lock' = NoProc
  /\ hist' = [hist EXCEPT ![calls[p].mac] = Append(@,
       [vendor |-> calls[p].vendor, service_uuids |-> calls[p].service_uuids,
        bt_type |-> calls[p].bt_type, device_class |-> calls[p].device_class,
        now |-> calls[p].now])]
  /\ calls' = [calls EXCEPT ![p] = IdleCall]
  /\ UNCHANGED <<clock, wdevices, wsightings, lists, ncalls, nops, nreqs, pruned,
                 human, cl, dw, px, co, nclassify, edgeVars>>

\* a storage error, a lock timeout or the caller's cancellation at any await
\* before the commit
UpsertFail(p) ==
  /\ calls[p].pc \in {"select", "write", "sighting", "commit"}
  /\ IF lock = p
     THEN Rollback(p)
     ELSE /\ calls' = [calls EXCEPT ![p] = IdleCall]
          /\ UNCHANGED <<wdevices, wsightings, lock>>
  /\ UNCHANGED <<clock, devices, sightings, lists, ncalls, nops, nreqs, hist, pruned,
                 human, cl, dw, px, co, nclassify, edgeVars>>

\* ------------------------------------------------------------------------
\* db.py: the setters and cleanup_old_sightings.  Each is one statement and
\* its commit on a connection of its own; the statement needs the write lock.
\* ------------------------------------------------------------------------
\* UPDATE devices SET <column> = ? WHERE mac = ?
SetColumn(tbl, mac, column, value) ==
  IF mac \in DOMAIN tbl
  THEN [tbl EXCEPT ![mac] = [@ EXCEPT ![column] = value]]
  ELSE tbl

set_friendly_name(mac, name) ==
  /\ lock = NoProc
  /\ devices' = SetColumn(devices, mac, "friendly_name", name)
  /\ wdevices' = devices'

set_ignored(mac, ignored) ==
  /\ lock = NoProc
  /\ devices' = SetColumn(devices, mac, "ignored", ignored)
  /\ wdevices' = devices'

set_device_type(mac, device_type) ==
  /\ lock = NoProc
  /\ devices' = SetColumn(devices, mac, "device_type", device_type)
  /\ wdevices' = devices'

\* DELETE FROM sightings WHERE timestamp < datetime('now', '-<days> days')
Kept(rows, cutoff) == SelectSeq(rows, LAMBDA s : ~(s.timestamp < cutoff))

CountOf(rows, mac) == Cardinality({i \in 1..Len(rows) : rows[i].mac = mac})

cleanup_old_sightings(days) ==
  /\ lock = NoProc
  /\ nops < MaxOps
  /\ nops' = nops + 1
  /\ sightings' = Kept(sightings, clock - days)
  /\ wsightings' = sightings'
  /\ pruned' = [m \in Macs |-> pruned[m] + CountOf(sightings, m) - CountOf(sightings', m)]
  /\ UNCHANGED <<clock, devices, wdevices, lock, calls, lists, ncalls, nreqs,
                 hist, human, cl, dw, px, co, nclassify, edgeVars>>

\* ------------------------------------------------------------------------
\* daemon.py: _handle_request
\* ------------------------------------------------------------------------
\* cmd == "set_name"
CmdSetName(mac, name) ==
  /\ nreqs < MaxRequests
  /\ nreqs' = nreqs + 1
  /\ set_friendly_name(mac, name)
  /\ UNCHANGED <<clock, sightings, wsightings, lock, calls, lists, ncalls, nops, hist,
                 pruned, human, cl, dw, px, co, nclassify, edgeVars>>

\* cmd == "set_ignored"
CmdSetIgnored(mac, ignored) ==
  /\ nreqs < MaxRequests
  /\ nreqs' = nreqs + 1
  /\ set_ignored(mac, ignored)
  /\ UNCHANGED <<clock, sightings, wsightings, lock, calls, lists, ncalls, nops, hist,
                 pruned, human, cl, dw, px, co, nclassify, edgeVars>>

\* cmd == "set_device_type": the operator's choice
CmdSetDeviceType(mac, device_type) ==
  /\ nreqs < MaxRequests
  /\ nreqs' = nreqs + 1
  /\ set_device_type(mac, device_type)
  /\ human' = IF mac \in DOMAIN devices
              THEN [human EXCEPT ![mac] = device_type] ELSE human
  /\ UNCHANGED <<clock, sightings, wsightings, lock, calls, lists, ncalls, nops, hist,
                 pruned, cl, dw, px, co, nclassify, edgeVars>>

\* get_all_devices: the rows in an order ORDER BY last_seen DESC allows
Orders(tbl, include_ignored) ==
  LET shown == {m \in DOMAIN tbl : include_ignored \/ ~tbl[m].ignored}
      n == Cardinality(shown)
  IN  {o \in [1..n -> shown] :
         /\ \A i, j \in 1..n : i # j => o[i] # o[j]
         /\ \A i, j \in 1..n : i < j => tbl[o[i]].last_seen >= tbl[o[j]].last_seen}

\* classify_device(d.vendor, d.friendly_name) for the vendors and names a
\* row of the model can hold, computed once
Classified ==
  [vendor \in VendorInputs \cup {o.vendor : o \in Observations},
   name \in NameInputs \cup {None} |->
     classify_device(vendor, name)]

\* the rows of the snapshot the loop of cmd == "list" stores a type for
NeedsStore(row) ==
  /\ ~Truthy(row.device_type)
  /\ Classified[row.vendor, row.friendly_name] # TYPE_UNKNOWN

RECURSIVE Todo(_, _)
Todo(tbl, order) ==
  IF order = <<>> THEN <<>>
  ELSE LET m == Head(order) IN
       IF NeedsStore(tbl[m])
       THEN <<[mac |-> m, device_type |-> Classified[tbl[m].vendor, tbl[m].friendly_name]]>>
            \o Todo(tbl, Tail(order))
       ELSE Todo(tbl, Tail(order))

\* Unclassified without the test  if not device_type
Unclassified_All(tbl, order) == {order[i] : i \in 1..Len(order)}

\* the rows of the snapshot the loop calls classify_device for: if not
\* device_type
Unclassified(tbl, order) ==
  {order[i] : i \in {j \in 1..Len(order) : ~Truthy(tbl[order[j]].device_type)}}

\* cmd == "list": devices = await db.get_all_devices(include_ignored)
CmdList(c, include_ignored) ==
  /\ lists[c].pc = "idle"
  /\ nreqs < MaxRequests
  /\ nreqs' = nreqs + 1
  /\ \E order \in Orders(devices, include_ignored) :
       LET todo == Todo(devices, order) IN
       lists' = [lists EXCEPT ![c] =
                   IF todo = <<>> THEN IdleList ELSE [pc |-> "store", todo |-> todo]]
  /\ UNCHANGED <<clock, devices, sightings, wdevices, wsightings, lock, calls,
                 ncalls, nops, hist, pruned, human, cl, dw, px, co, nclassify, edgeVars>>

\* CmdList with the calls of classify_device counted per address
CmdListCounted(c, include_ignored) ==
  /\ lists[c].pc = "idle"
  /\ nreqs < MaxRequests
  /\ nreqs' = nreqs + 1
  /\ \E order \in Orders(devices, include_ignored) :
       LET todo == Todo(devices, order) IN
       /\ lists' = [lists EXCEPT ![c] =
                      IF todo = <<>> THEN IdleList ELSE [pc |-> "store", todo |-> todo]]
       /\ nclassify' = [m \in Macs |->
                          IF m \in Unclassified(devices, order)
                          THEN nclassify[m] + 1 ELSE nclassify[m]]
  /\ UNCHANGED <<clock, devices, sightings, wdevices, wsightings, lock, calls,
                 ncalls, nops, hist, pruned, human, cl, dw, px, co, edgeVars>>

CmdListStore(c) ==
  /\ lists[c].pc = "store"
  /\ set_device_type(Head(lists[c].todo).mac, Head(lists[c].todo).device_type)
  /\ lists' = [lists EXCEPT ![c] =
                 IF Tail(lists[c].todo) = <<>> THEN IdleList
                 ELSE [pc |-> "store", todo |-> Tail(lists[c].todo)]]
  /\ UNCHANGED <<clock, sightings, wsightings, lock, calls, ncalls, nops, nreqs,
                 hist, pruned, human, cl, dw, px, co, nclassify, edgeVars>>

\* ------------------------------------------------------------------------
\* The store under concurrent callers of upsert_device
\* ------------------------------------------------------------------------
\* ------------------------------------------------------------------------
\* db.py: set_watched, set_device_group, set_device_notes and the handlers of
\* web.py that call them
\* ------------------------------------------------------------------------
set_watched(mac, watched) ==
  /\ lock = NoProc
  /\ devices' = SetColumn(devices, mac, "watched", watched)
  /\ wdevices' = devices'

set_device_group(mac, group_id) ==
  /\ lock = NoProc
  /\ devices' = SetColumn(devices, mac, "group_id", group_id)
  /\ wdevices' = devices'

\* notes if notes else None
set_device_notes(mac, notes) ==
  /\ lock = NoProc
  /\ devices' = SetColumn(devices, mac, "notes", IF Truthy(notes) THEN notes ELSE None)
  /\ wdevices' = devices'

\* the group and the notes an operator enters
GroupInputs == {1}
Desk == <<"d", "e", "s", "k">>
NotesInputs == {Desk}

\* a handler of /api/device/{mac}/...: 404 without a row, else the setter
api_toggle_watch(mac) ==
  /\ nreqs < MaxRequests
  /\ nreqs' = nreqs + 1
  /\ IF mac \in DOMAIN devices
     THEN set_watched(mac, ~devices[mac].watched)
     ELSE lock = NoProc /\ UNCHANGED <<devices, wdevices>>
  /\ UNCHANGED <<clock, sightings, wsightings, lock, calls, lists, ncalls, nops, hist,
                 pruned, human, cl, dw, px, co, nclassify, edgeVars>>

api_set_device_group(mac, group_id) ==
  /\ nreqs < MaxRequests
  /\ nreqs' = nreqs + 1
  /\ IF mac \in DOMAIN devices
     THEN set_device_group(mac, group_id)
     ELSE lock = NoProc /\ UNCHANGED <<devices, wdevices>>
  /\ UNCHANGED <<clock, sightings, wsightings, lock, calls, lists, ncalls, nops, hist,
                 pruned, human, cl, dw, px, co, nclassify, edgeVars>>

api_set_device_notes(mac, notes) ==
  /\ nreqs < MaxRequests
  /\ nreqs' = nreqs + 1
  /\ IF mac \in DOMAIN devices
     THEN set_device_notes(mac, notes)
     ELSE lock = NoProc /\ UNCHANGED <<devices, wdevices>>
  /\ UNCHANGED <<clock, sightings, wsightings, lock, calls, lists, ncalls, nops, hist,
                 pruned, human, cl, dw, px, co, nclassify, edgeVars>>

Next ==
  \/ Tick
  \/ \E p \in Procs, mac \in ScanMacs, o \in Observations :
       UpsertCall(p, mac, o.vendor, o.service_uuids, o.bt_type, o.device_class)
  \/ \E p \in Procs : UpsertSelect(p)
  \/ \E p \in Procs : UpsertWrite(p)
  \/ \E p \in Procs : UpsertSighting(p)
  \/ \E p \in Procs : UpsertCommit(p)
  \/ \E p \in Procs : UpsertFail(p)
  \/ \E days \in DaysInputs : cleanup_old_sightings(days)

Spec == Init /\ [][Next]_vars

\* two callers of upsert_device, each for either address, and the operator's
\* edits of the row of the first address
NextPair ==
  \/ \E p \in Procs, mac \in Macs :
       UpsertCall(p, mac, Sonos, {"180f"}, "ble", NoneInt)
  \/ \E p \in Procs : UpsertSelect(p)
  \/ \E p \in Procs : UpsertWrite(p)
  \/ \E p \in Procs : UpsertSighting(p)
  \/ \E p \in Procs : UpsertCommit(p)
  \/ \E p \in Procs : UpsertFail(p)
  \/ \E mac \in ScanMacs, name \in NameInputs : CmdSetName(mac, name)
  \/ \E mac \in ScanMacs : CmdSetIgnored(mac, TRUE)
  \/ \E mac \in ScanMacs, device_type \in TypeInputs : CmdSetDeviceType(mac, device_type)
  \/ \E mac \in ScanMacs : api_toggle_watch(mac)
  \/ \E mac \in ScanMacs, group_id \in GroupInputs : api_set_device_group(mac, group_id)
  \/ \E mac \in ScanMacs, notes \in NotesInputs : api_set_device_notes(mac, notes)

SpecPair == Init /\ [][NextPair]_vars

\* ------------------------------------------------------------------------
\* The daemon: _scan_loop records the devices of a scan one after another
\* (mac, vendor and rssi only) while _handle_client serves the requests
\* ------------------------------------------------------------------------
NextDaemon ==
  \/ Tick
  \/ \E mac \in ScanMacs, vendor \in VendorInputs :
       UpsertCall(1, mac, vendor, {}, "ble", NoneInt)
  \/ UpsertSelect(1)
  \/ UpsertWrite(1)
  \/ UpsertSighting(1)
  \/ UpsertCommit(1)
  \/ UpsertFail(1)
  \/ \E days \in DaysInputs : cleanup_old_sightings(days)
  \/ \E mac \in Macs, name \in NameInputs : CmdSetName(mac, name)
  \/ \E mac \in Macs, ignored \in BOOLEAN : CmdSetIgnored(mac, ignored)
  \/ \E mac \in Macs, device_type \in TypeInputs : CmdSetDeviceType(mac, device_type)
  \/ \E c \in Clients, include_ignored \in BOOLEAN : CmdList(c, include_ignored)
  \/ \E c \in Clients : CmdListStore(c)

SpecDaemon == Init /\ [][NextDaemon]_vars

\* the scan loop, the operator's kinds and names, and 'list' requests with
\* the classifier's calls counted
NextList ==
  \/ \E mac \in ScanMacs, vendor \in VendorInputs :
       UpsertCall(1, mac, vendor, {}, "ble", NoneInt)
  \/ UpsertSelect(1)
  \/ UpsertWrite(1)
  \/ UpsertSighting(1)
  \/ UpsertCommit(1)
  \/ \E mac \in Macs, name \in NameInputs : CmdSetName(mac, name)
  \/ \E mac \in Macs, device_type \in TypeInputs : CmdSetDeviceType(mac, device_type)
  \/ \E c \in Clients, include_ignored \in BOOLEAN : CmdListCounted(c, include_ignored)
  \/ \E c \in Clients : CmdListStore(c)

SpecList == Init /\ [][NextList]_vars

\* ------------------------------------------------------------------------
\* classify_device applied to bounded inputs
\* ------------------------------------------------------------------------
ClassifyVendors ==
  {None, <<>>, Sonos, Acme,
   <<"S", "a", "m", "s", "u", "n", "g", " ", "E", "l", "e", "c", "t", "r", "o", "n", "i", "c", "s", " ", "C", "o">>,
   <<"A", "p", "p", "l", "e", ",", " ", "I", "n", "c", ".">>,
   <<"E", "s", "p", "r", "e", "s", "s", "i", "f">>}

ClassifyNames ==
  {None, <<>>, MacBookPro,
   <<"i", "P", "h", "o", "n", "e">>,
   <<"G", "a", "l", "a", "x", "y", " ", "T", "a", "b">>,
   <<"M", "i", " ", "B", "a", "n", "d", " ", "6">>,
   <<"L", "i", "v", "i", "n", "g", " ", "R", "o", "o", "m", " ", "T", "V">>,
   <<"i", "M", "a", "c">>,
   <<"S", "e", "n", "s", "o", "r">>}

InitClassify ==
  /\ InitStore
  /\ cl \in [pc : {"called"}, vendor : ClassifyVendors, name : ClassifyNames,
             result : {None}]
  /\ InitAnalytics
  /\ InitEdge

ClassifyReturn ==
  /\ cl.pc = "called"
  /\ cl' = [cl EXCEPT !.pc = "returned",
                      !.result = classify_device(cl.vendor, cl.name)]
  /\ UNCHANGED <<storeVars, analyticsVars, edgeVars>>

NextClassify == ClassifyReturn

SpecClassify == InitClassify /\ [][NextClassify]_vars

\* ------------------------------------------------------------------------
\* Python arithmetic of the statistics in db.py.  Minutes are held in
\* tenths, the precision round(x, 1) keeps; percentages likewise.
\* ------------------------------------------------------------------------
Abs(x) == IF x < 0 THEN 0 - x ELSE x

\* round(num / den) for den > 0: the nearest integer, a tie going to the
\* even neighbour
round(num, den) ==
  LET f == num \div den
      r == num % den
  IN  IF 2 * r > den \/ (2 * r = den /\ f % 2 = 1) THEN f + 1 ELSE f

\* round(num / den) where num / den is a float quotient of a float sum: the
\* nearest integer, and at a tie whichever neighbour the binary value of the
\* quotient lies nearer to
RoundFloat(num, den) ==
  {q \in {num \div den, num \div den + 1} : 2 * Abs(q * den - num) <= den}

\* ------------------------------------------------------------------------
\* db.py: get_dwell_time.  Timestamps are whole seconds.
\* ------------------------------------------------------------------------
\* sessions[-10:]
RecentSessions == 10

\* the result for an address without sightings in the window
EmptyDwell_OneSession ==
  [total_minutes |-> 0, session_count |-> 1, avg_session_minutes |-> 0,
   longest_session_minutes |-> 0, sessions |-> <<>>]

EmptyDwell ==
  [total_minutes |-> 0, session_count |-> 0, avg_session_minutes |-> 0,
   longest_session_minutes |-> 0, sessions |-> <<>>]

\* round(duration, 1) of (session_end - session_start).total_seconds() / 60;
\* the timestamps of this model are even seconds, where no tie arises
DurationMinutes(session_start, session_end) ==
  round(session_end - session_start, 6)

Session(session_start, session_end) ==
  [start |-> session_start, end |-> session_end,
   duration_minutes |-> DurationMinutes(session_start, session_end)]

\* if gap > gap_threshold
Splits_AtThreshold(gap, gap_threshold) == gap >= gap_threshold

Splits(gap, gap_threshold) == gap > gap_threshold

\* the loop over timestamps[1:], entered at index i, and the append after it
RECURSIVE SessionLoop(_, _, _, _, _, _)
SessionLoop(timestamps, i, session_start, session_end, gap_threshold, sessions) ==
  IF i > Len(timestamps)
  THEN Append(sessions, Session(session_start, session_end))
  ELSE IF Splits(timestamps[i] - session_end, gap_threshold)
       THEN SessionLoop(timestamps, i + 1, timestamps[i], timestamps[i],
                        gap_threshold,
                        Append(sessions, Session(session_start, session_end)))
       ELSE SessionLoop(timestamps, i + 1, session_start, timestamps[i],
                        gap_threshold, sessions)

RECURSIVE SumDurations(_)
SumDurations(sessions) ==
  IF sessions = <<>> THEN 0
  ELSE Head(sessions).duration_minutes + SumDurations(Tail(sessions))

LastSessions_All(sessions) == sessions

LastSessions_Oldest(sessions) ==
  SubSeq(sessions, 1, Min({RecentSessions, Len(sessions)}))

LastSessions(sessions) ==
  SubSeq(sessions, Max({1, Len(sessions) - RecentSessions + 1}), Len(sessions))

\* the results a call can return: one, or two where the average is a tie
get_dwell_time(rows, gap_minutes) ==
  IF rows = <<>> THEN {EmptyDwell}
  ELSE
    LET gap_threshold == gap_minutes * 60
        sessions == SessionLoop(rows, 2, rows[1], rows[1], gap_threshold, <<>>)
        total_minutes == SumDurations(sessions)
        longest == Max({sessions[i].duration_minutes : i \in 1..Len(sessions)})
    IN  {[total_minutes |-> total_minutes,
          session_count |-> Len(sessions),
          avg_session_minutes |-> avg,
          longest_session_minutes |-> longest,
          sessions |-> LastSessions(sessions)] :
           avg \in RoundFloat(total_minutes, Len(sessions))}

\* the rows the SELECT returns, ORDER BY timestamp ASC
RECURSIVE Ascending(_, _)
Ascending(first, gaps) ==
  IF gaps = <<>> THEN <<first>>
  ELSE <<first>> \o Ascending(first + Head(gaps), Tail(gaps))

DwellGaps == {40, 60, 100}

RunGaps == {40, 100}

AscendingRows(n, gaps) == {Ascending(0, g) : g \in [1..(n - 1) -> gaps]}

DwellRows ==
  {<<>>}
    \cup UNION {AscendingRows(n, DwellGaps) : n \in 1..MaxSightings}
    \cup UNION {AscendingRows(n, RunGaps) : n \in (MaxSightings + 1)..MaxRun}

\* sightings at minutes 0, 5, 10, 40, 45 and the default gap of 15 minutes
StatedDwell ==
  [pc |-> "called", rows |-> <<0, 300, 600, 2400, 2700>>, gap_minutes |-> 15]

\* api_device_dwell passes int(request.query.get("gap", "15")) on as it is:
\* ?gap=0 and ?gap=-1
NonPositiveDwell ==
  {[pc |-> "called", rows |-> <<0, 40, 140>>, gap_minutes |-> g] :
     g \in {0, 0 - 1}}

DwellCalls ==
  {[pc |-> "called", rows |-> r, gap_minutes |-> 1] : r \in DwellRows}
    \cup {StatedDwell} \cup NonPositiveDwell

DwellReturn ==
  /\ dw.pc = "called"
  /\ \E result \in get_dwell_time(dw.rows, dw.gap_minutes) :
       dw' = [pc |-> "returned", rows |-> dw.rows,
              gap_minutes |-> dw.gap_minutes, result |-> result]
  /\ UNCHANGED <<storeVars, cl, px, co, edgeVars>>

\* ------------------------------------------------------------------------
\* db.py: rssi_to_proximity_zone and get_proximity_stats.  A row of the
\* window is its rssi column, NULL being NoneInt.
\* ------------------------------------------------------------------------
rssi_to_proximity_zone_Strict(rssi) ==
  IF rssi = NoneInt THEN "unknown"
  ELSE IF rssi > -50 THEN "immediate"
  ELSE IF rssi > -65 THEN "near"
  ELSE IF rssi > -80 THEN "far"
  ELSE "remote"

rssi_to_proximity_zone(rssi) ==
  IF rssi = NoneInt THEN "unknown"
  ELSE IF rssi >= -50 THEN "immediate"
  ELSE IF rssi >= -65 THEN "near"
  ELSE IF rssi >= -80 THEN "far"
  ELSE "remote"

\* the keys of the dict zones, in insertion order
ZoneOrder == <<"immediate", "near", "far", "remote">>

\* SELECT rssi ... WHERE rssi IS NOT NULL
NotNull(readings) == SelectSeq(readings, LAMBDA r : r # NoneInt)

\* the loop over rows: zones[zone] += 1 if zone in zones
RECURSIVE CountZones(_, _)
CountZones(rows, zones) ==
  IF rows = <<>> THEN zones
  ELSE LET zone == rssi_to_proximity_zone(Head(rows))
       IN  CountZones(Tail(rows),
                      IF zone \in DOMAIN zones
                      THEN [zones EXCEPT ![zone] = @ + 1]
                      ELSE zones)

\* round(v / total * 100, 1), in tenths of a percent
ZonePercent_Floor(v, total) == (v * 1000) \div total

ZonePercent(v, total) == round(v * 1000, total)

\* max(zones.items(), key=lambda x: x[1])[0]: the first key of the greatest
\* count
Dominant_Last(zones) ==
  LET best == Max({zones[z] : z \in DOMAIN zones})
  IN  ZoneOrder[Max({i \in 1..Len(ZoneOrder) : zones[ZoneOrder[i]] = best})]

Dominant(zones) ==
  LET best == Max({zones[z] : z \in DOMAIN zones})
  IN  ZoneOrder[Min({i \in 1..Len(ZoneOrder) : zones[ZoneOrder[i]] = best})]

get_proximity_stats(readings) ==
  LET rows == NotNull(readings)
      zones == CountZones(rows, [z \in {ZoneOrder[i] : i \in 1..Len(ZoneOrder)} |-> 0])
      total == zones["immediate"] + zones["near"] + zones["far"] + zones["remote"]
  IN  [zones |-> zones,
       zones_percent |->
         IF total > 0 THEN [z \in DOMAIN zones |-> ZonePercent(zones[z], total)]
         ELSE [z \in DOMAIN zones |-> 0],
       total_readings |-> total,
       dominant_zone |-> IF total > 0 THEN Dominant(zones) ELSE "unknown"]

\* every whole reading from -100 dBm to -30 dBm
RssiInputs == (0 - 100)..(0 - 30)

\* readings on the thresholds and one below the last
ZoneReadings == <<-50, -65, -80, -81>>

Repeat(x, n) == [i \in 1..n |-> x]

\* rows holding counts[i] readings of ZoneReadings[i] and nulls NULL readings
ReadingRows(counts, nulls) ==
  Repeat(ZoneReadings[1], counts[1]) \o Repeat(ZoneReadings[2], counts[2])
    \o Repeat(NoneInt, nulls)
    \o Repeat(ZoneReadings[3], counts[3]) \o Repeat(ZoneReadings[4], counts[4])

ProximityRows ==
  {ReadingRows(c, nulls) :
     c \in {d \in [1..4 -> 0..MaxReadings] : d[1] + d[2] + d[3] + d[4] <= MaxReadings},
     nulls \in 0..1}
    \cup {<<r>> : r \in RssiInputs}

ProximityCalls == {[pc |-> "called", readings |-> r] : r \in ProximityRows}

ProximityReturn ==
  /\ px.pc = "called"
  /\ px' = [pc |-> "returned", readings |-> px.readings,
            result |-> get_proximity_stats(px.readings)]
  /\ UNCHANGED <<storeVars, cl, dw, co, edgeVars>>

\* ------------------------------------------------------------------------
\* db.py: get_correlated_devices.  Timestamps are whole minutes; the tables
\* are times (mac -> the timestamps of its rows of sightings) and ignored
\* (mac -> devices.ignored).
\* ------------------------------------------------------------------------
\* the TEXT datetime.isoformat() stores in sightings.timestamp: the date, 'T'
\* and the time of day
isoformat(t) == <<t \div 1440, "T", t % 1440>>

\* the TEXT of SQLite's datetime(timestamp, '+N minutes'): the date, a space
\* and the time of day
datetime(t, minutes) == <<(t + minutes) \div 1440, " ", (t + minutes) % 1440>>

\* SQLite compares TEXT bytewise: the dates, then the separators (a space
\* sorts before 'T'), then the times of day
TextLess(a, b) ==
  \/ a[1] < b[1]
  \/ a[1] = b[1] /\ a[2] = " " /\ b[2] = "T"
  \/ a[1] = b[1] /\ a[2] = b[2] /\ a[3] < b[3]

\* x BETWEEN lo AND hi
Between(x, lo, hi) == ~TextLess(x, lo) /\ ~TextLess(hi, x)

\* HAVING co_occurrences >= 2
MinCoOccurrences == 2

\* LIMIT 20
MaxCorrelated == 20

\* COUNT(*) of the rows s1 JOIN s2 of one s2.mac
CoOccurrences(times, mac, other, window_minutes) ==
  Cardinality({p \in times[mac] \X times[other] :
                 Between(isoformat(p[2]), datetime(p[1], 0 - window_minutes),
                         datetime(p[1], window_minutes))})

\* min(100, round((row["co_occurrences"] / target_count) * 100))
correlation_Uncapped(co_occurrences, target_count) ==
  round(co_occurrences * 100, target_count)

correlation(co_occurrences, target_count) ==
  Min({100, round(co_occurrences * 100, target_count)})

\* the orders ORDER BY co_occurrences DESC can give the macs of S
Descending(S, count) ==
  {s \in [1..Cardinality(S) -> S] :
     /\ \A i, j \in DOMAIN s : i # j => s[i] # s[j]
     /\ \A i, j \in DOMAIN s : i < j => count[s[i]] >= count[s[j]]}

\* the lists a call can return: one for each order of equal counts
get_correlated_devices(times, ignored, mac, window_minutes) ==
  IF times[mac] = {} THEN {<<>>}
  ELSE
    LET target_count == Cardinality(times[mac])
        count == [m \in DOMAIN times |->
                    CoOccurrences(times, mac, m, window_minutes)]
        grouped == {m \in DOMAIN times \ {mac} :
                      /\ ~ignored[m]
                      /\ count[m] >= MinCoOccurrences}
    IN  {[i \in 1..Min({MaxCorrelated, Len(s)}) |->
            [mac |-> s[i], co_occurrences |-> count[s[i]],
             correlation_score |-> correlation(count[s[i]], target_count)]] :
           s \in Descending(grouped, count)}

CoTarget == "AA:BB:CC:DD:EE:01"

CoOthers == {"AA:BB:CC:DD:EE:02", "AA:BB:CC:DD:EE:03"}

\* 12:00 and 12:02 of the first day, 23:58, and 00:01 of the second day
CoTimes == {720, 722, 1438, 1441}

CorrelatedTables ==
  {[times |-> [m \in {CoTarget} \cup CoOthers |->
                 IF m = CoTarget THEN t
                 ELSE IF m = "AA:BB:CC:DD:EE:02" THEN x ELSE y],
    ignored |-> [m \in {CoTarget} \cup CoOthers |->
                   m = "AA:BB:CC:DD:EE:02" /\ ig]] :
     t \in SUBSET CoTimes, x \in SUBSET CoTimes,
     y \in SUBSET {720, 1438}, ig \in BOOLEAN}

\* ten sightings of the target ten minutes apart, the other device seen in
\* the same minute as four of them
StatedCorrelation ==
  [times |-> [m \in {CoTarget} \cup CoOthers |->
                IF m = CoTarget THEN {600 + 10 * i : i \in 0..9}
                ELSE IF m = "AA:BB:CC:DD:EE:02" THEN {600, 610, 620, 630}
                ELSE {}],
   ignored |-> [m \in {CoTarget} \cup CoOthers |-> FALSE]]

CorrelatedCalls ==
  {[pc |-> "called", times |-> c.times, ignored |-> c.ignored,
    mac |-> CoTarget, window_minutes |-> 5] :
     c \in CorrelatedTables \cup {StatedCorrelation}}

CorrelatedReturn ==
  /\ co.pc = "called"
  /\ \E result \in get_correlated_devices(co.times, co.ignored, co.mac,
                                          co.window_minutes) :
       co' = [pc |-> "returned", times |-> co.times, ignored |-> co.ignored,
              mac |-> co.mac, window_minutes |-> co.window_minutes,
              result |-> result]
  /\ UNCHANGED <<storeVars, cl, dw, px, edgeVars>>

\* ------------------------------------------------------------------------
\* web.py: api_device and _analyze_pattern
\* ------------------------------------------------------------------------
\* db.get_hourly_distribution(mac, 30), db.get_daily_distribution(mac, 30),
\* db.get_sightings(mac, 30)
DeviceDays == 30

\* avg_per_day = sighting_count / 30
PatternDays == 30

\* sum(d.get(k, 0) for k in keys)
RECURSIVE SumGet(_, _)
SumGet(d, keys) ==
  IF keys = {} THEN 0
  ELSE LET k == CHOOSE x \in keys : TRUE
       IN  (IF k \in DOMAIN d THEN d[k] ELSE 0) + SumGet(d, keys \ {k})

\* Frequency with the average taken per day of a week
Frequency_PerWeek(sighting_count) ==
  IF sighting_count >= 5 * 7 THEN "Constant"
  ELSE IF sighting_count >= 2 * 7 THEN "Very frequent"
  ELSE IF sighting_count >= 7 THEN "Daily"
  ELSE IF 2 * sighting_count >= 7 THEN "Regular"
  ELSE IF 100 * sighting_count >= 15 * 7 THEN "Occasional"
  ELSE "Rare"

\* the label of avg_per_day: >= 5, >= 2, >= 1, >= 0.5, >= 0.15, else
Frequency(sighting_count) ==
  IF sighting_count >= 5 * PatternDays THEN "Constant"
  ELSE IF sighting_count >= 2 * PatternDays THEN "Very frequent"
  ELSE IF sighting_count >= PatternDays THEN "Daily"
  ELSE IF 2 * sighting_count >= PatternDays THEN "Regular"
  ELSE IF 100 * sighting_count >= 15 * PatternDays THEN "Occasional"
  ELSE "Rare"

\* the part of the day that holds more than half of the sightings
TimePattern(hourly) ==
  LET total == SumGet(hourly, DOMAIN hourly)
      morning == SumGet(hourly, 6..11)
      afternoon == SumGet(hourly, 12..17)
      evening == SumGet(hourly, 18..23)
      night == SumGet(hourly, 0..5)
      periods == <<<<morning, "mornings">>, <<afternoon, "afternoons">>,
                   <<evening, "evenings">>, <<night, "nights">>>>
      best == Max({periods[i][1] : i \in 1..4})
      dominant == periods[Min({i \in 1..4 : periods[i][1] = best})]
  IN  IF DOMAIN hourly # {} /\ total > 0 /\ 2 * dominant[1] > total
      THEN <<dominant[2]>> ELSE <<>>

\* weekdays only above 85 %, weekends only above 70 %
DayPattern(daily) ==
  LET total == SumGet(daily, DOMAIN daily)
      weekday == SumGet(daily, 0..4)
      weekend == SumGet(daily, 5..6)
  IN  IF DOMAIN daily # {} /\ total > 0
      THEN IF 100 * weekday > 85 * total THEN <<"weekdays only">>
           ELSE IF 100 * weekend > 70 * total THEN <<"weekends only">>
           ELSE <<>>
      ELSE <<>>

\* ", ".join(parts)
RECURSIVE Join(_)
Join(parts) ==
  IF Len(parts) <= 1 THEN parts
  ELSE <<Head(parts), ", ">> \o Join(Tail(parts))

_analyze_pattern(hourly, daily, sighting_count) ==
  IF sighting_count < 5 THEN <<"Insufficient data">>
  ELSE LET parts == <<Frequency(sighting_count)>> \o TimePattern(hourly)
                      \o DayPattern(daily)
       IN  IF parts # <<>> THEN Join(parts) ELSE <<"No clear pattern">>

\* hour of day -> sightings
HourlyInputs ==
  {<<>>, 7 :> 4, 7 :> 2 @@ 20 :> 2, 13 :> 1 @@ 20 :> 3, 2 :> 0}

\* day of week -> sightings
DailyInputs ==
  {<<>>, 0 :> 5, 5 :> 3 @@ 6 :> 1, 1 :> 3 @@ 6 :> 3}

\* api_device has read the distributions and the sightings of DeviceDays days
PatternCalls ==
  [pc : {"called"}, days : {DeviceDays}, hourly : HourlyInputs,
   daily : DailyInputs, sighting_count : 0..MaxSightingCount]

PatternReturn ==
  /\ pt.pc = "called"
  /\ pt' = [pc |-> "returned", days |-> pt.days, hourly |-> pt.hourly,
            daily |-> pt.daily, sighting_count |-> pt.sighting_count,
            result |-> _analyze_pattern(pt.hourly, pt.daily, pt.sighting_count)]
  /\ UNCHANGED <<storeVars, cl, analyticsVars, wireVars, web>>

\* ------------------------------------------------------------------------
\* The control socket: daemon.py _handle_client, _handle_request and
\* _notify_clients; tui.py DaemonClient.send_command
\* ------------------------------------------------------------------------
\* the commands send_command writes: one the daemon knows, one it does not
\* know, and a search whose start_time datetime.fromisoformat cannot parse
CommandKinds == {"list", "bogus", "search_bad_time"}

\* the answer of _handle_request: a response, or raised
_handle_request(kind) ==
  IF kind = "list" THEN "ok"
  ELSE IF kind = "search_bad_time" THEN "raised"
  ELSE "error"

\* writer.write(data) of the daemon: the client's stream reader gets the line
\* and wakes the coroutine waiting in readline()
Deliver(line) ==
  /\ resps' = Append(resps, line)
  /\ waiter' = NoCaller
  /\ snd' = IF waiter # NoCaller THEN [snd EXCEPT ![waiter].pc = "read"] ELSE snd

\* send_command up to drain(): the command is written as one line of JSON
SendWrite(c, kind) ==
  /\ snd[c].pc \in {"idle", "returned"}
  /\ nsent < MaxSends
  /\ nsent' = nsent + 1
  /\ reqs' = Append(reqs, [id |-> nsent + 1, kind |-> kind])
  /\ snd' = [snd EXCEPT ![c] = [pc |-> "read", id |-> nsent + 1, got |-> 0,
                                 error |-> FALSE]]
  /\ UNCHANGED <<resps, waiter, answered, nevents>>
  /\ UNCHANGED <<storeVars, cl, analyticsVars, pt, web>>

\* a connected client writes a line that is not JSON
ClientWriteRaw ==
  /\ nsent < MaxSends
  /\ nsent' = nsent + 1
  /\ reqs' = Append(reqs, [id |-> nsent + 1, kind |-> "not_json"])
  /\ UNCHANGED <<resps, snd, waiter, answered, nevents>>
  /\ UNCHANGED <<storeVars, cl, analyticsVars, pt, web>>

\* one pass of the loop of send_command: await self.reader.readline().  A
\* buffered line is taken at once, an event is skipped, anything else is
\* returned; with no line buffered the coroutine waits, and readline raises
\* RuntimeError when another coroutine already waits, which send_command
\* returns as an error.
SendRead(c) ==
  /\ snd[c].pc = "read"
  /\ IF resps # <<>>
     THEN /\ resps' = Tail(resps)
          /\ snd' = IF Head(resps).line = "event" THEN snd
                    ELSE [snd EXCEPT ![c].pc = "returned", ![c].got = Head(resps).id]
          /\ UNCHANGED waiter
     ELSE IF waiter # NoCaller
     THEN /\ snd' = [snd EXCEPT ![c].pc = "returned", ![c].error = TRUE]
          /\ UNCHANGED <<resps, waiter>>
     ELSE /\ snd' = [snd EXCEPT ![c].pc = "wait"]
          /\ waiter' = c
          /\ UNCHANGED resps
  /\ UNCHANGED <<reqs, answered, nsent, nevents>>
  /\ UNCHANGED <<storeVars, cl, analyticsVars, pt, web>>

\* one pass of the loop of _handle_client on a line read: json.loads,
\* _handle_request and, when neither raised, one response line
HandleLine(line) ==
  IF line.kind # "not_json" /\ _handle_request(line.kind) # "raised"
  THEN /\ Deliver([line |-> "response", id |-> line.id,
                   status |-> _handle_request(line.kind)])
       /\ answered' = [answered EXCEPT ![line.id] = @ + 1]
  ELSE UNCHANGED <<resps, snd, waiter, answered>>

DaemonHandle ==
  /\ reqs # <<>>
  /\ reqs' = Tail(reqs)
  /\ HandleLine(Head(reqs))
  /\ UNCHANGED <<nsent, nevents>>
  /\ UNCHANGED <<storeVars, cl, analyticsVars, pt, web>>

\* _notify_clients after a scan: {"event": "scan_complete", ...}
NotifyClients ==
  /\ nevents < MaxEvents
  /\ nevents' = nevents + 1
  /\ Deliver([line |-> "event", id |-> 0, status |-> "scan_complete"])
  /\ UNCHANGED <<reqs, answered, nsent>>
  /\ UNCHANGED <<storeVars, cl, analyticsVars, pt, web>>

NextSocket ==
  \/ \E c \in Callers, kind \in CommandKinds : SendWrite(c, kind)
  \/ ClientWriteRaw
  \/ \E c \in Callers : SendRead(c)
  \/ DaemonHandle
  \/ NotifyClients

SpecSocket == Init /\ [][NextSocket]_vars

\* while the daemon runs, its loop reads every line that has arrived
SpecSocketFair == SpecSocket /\ WF_vars(DaemonHandle)

\* ------------------------------------------------------------------------
\* web.py: WebServer sessions, authentication and handlers.  Time is in
\* hours; a session token is its number of issue, cookie 0 is no cookie.
\* ------------------------------------------------------------------------
\* self._session_duration = timedelta(hours=24)
SessionHours == 24

\* request.cookies.get("session"): none, or a token of any number
Cookies == 0..MaxTokens

\* _validate_session: the token is known and datetime.now() is not past its
\* expiry
_validate_session(token) ==
  /\ token # 0
  /\ token \in DOMAIN web.sessions
  /\ ~(web.now > web.sessions[token])

\* self._sessions after _validate_session: an expired token is deleted
SessionsValidated(token) ==
  IF token # 0 /\ token \in DOMAIN web.sessions /\ web.now > web.sessions[token]
  THEN [t \in DOMAIN web.sessions \ {token} |-> web.sessions[t]]
  ELSE web.sessions

\* _check_auth: settings.auth_enabled is read first
_check_auth(token) == ~web.auth_enabled \/ _validate_session(token)

SessionsChecked(token) ==
  IF web.auth_enabled THEN SessionsValidated(token) ELSE web.sessions

Answer(path, token, status, data) ==
  [path |-> path, auth_enabled |-> web.auth_enabled,
   valid |-> _validate_session(token), status |-> status, data |-> data]

\* GET /: _require_auth raises HTTPFound("/login") for a page
index(token) ==
  /\ web' = [web EXCEPT
       !.sessions = SessionsChecked(token),
       !.last = Answer("/", token, IF _check_auth(token) THEN 200 ELSE 302, FALSE)]
  /\ UNCHANGED <<storeVars, cl, analyticsVars, pt, wireVars>>

\* GET /api/devices: db.get_all_devices and db.get_groups are read and
\* returned; the handler looks at no cookie
api_devices(token) ==
  /\ web' = [web EXCEPT !.last = Answer("/api/devices", token, 200, TRUE)]
  /\ UNCHANGED <<storeVars, cl, analyticsVars, pt, wireVars>>

\* POST /api/auth/login with the stored credentials or with others
api_login(good) ==
  /\ (web.auth_enabled /\ good) => web.ntokens < MaxTokens
  /\ IF ~web.auth_enabled
     THEN web' = [web EXCEPT !.last = Answer("/api/auth/login", 0, 400, FALSE)]
     ELSE IF good
     THEN web' = [web EXCEPT
            !.ntokens = @ + 1,
            !.sessions = ((web.ntokens + 1) :> (web.now + SessionHours)) @@ @,
            !.last = Answer("/api/auth/login", 0, 200, FALSE)]
     ELSE web' = [web EXCEPT !.last = Answer("/api/auth/login", 0, 401, FALSE)]
  /\ UNCHANGED <<storeVars, cl, analyticsVars, pt, wireVars>>

\* POST /api/auth/logout
api_logout(token) ==
  /\ web' = [web EXCEPT
       !.sessions = [t \in DOMAIN web.sessions \ {token} |-> web.sessions[t]],
       !.last = Answer("/api/auth/logout", token, 200, FALSE)]
  /\ UNCHANGED <<storeVars, cl, analyticsVars, pt, wireVars>>

\* POST /api/auth/setup with a username and a password when enabling
api_auth_setup(token, enabled) ==
  /\ IF web.auth_enabled /\ ~_check_auth(token)
     THEN web' = [web EXCEPT
            !.sessions = SessionsChecked(token),
            !.last = Answer("/api/auth/setup", token, 401, FALSE)]
     ELSE web' = [web EXCEPT
            !.sessions = SessionsChecked(token),
            !.auth_enabled = enabled,
            !.last = Answer("/api/auth/setup", token, 200, FALSE)]
  /\ UNCHANGED <<storeVars, cl, analyticsVars, pt, wireVars>>

\* twelve hours pass
WebTick ==
  /\ web.now < 12 * MaxHalfDays
  /\ web' = [web EXCEPT !.now = @ + 12]
  /\ UNCHANGED <<storeVars, cl, analyticsVars, pt, wireVars>>

NextWeb ==
  \/ \E token \in Cookies : index(token)
  \/ \E token \in Cookies : api_devices(token)
  \/ \E good \in BOOLEAN : api_login(good)
  \/ \E token \in Cookies : api_logout(token)
  \/ \E token \in Cookies, enabled \in BOOLEAN : api_auth_setup(token, enabled)
  \/ WebTick

SpecWeb == Init /\ [][NextWeb]_vars

\* ------------------------------------------------------------------------
\* The queries applied to bounded inputs
\* ------------------------------------------------------------------------
InitQueries ==
  /\ InitStore
  /\ cl = IdleClassify
  /\ InitWire
  /\ InitWeb
  /\ \/ dw \in DwellCalls /\ px = IdleQuery /\ co = IdleQuery /\ pt = IdleQuery
     \/ dw = IdleQuery /\ px \in ProximityCalls /\ co = IdleQuery /\ pt = IdleQuery
     \/ dw = IdleQuery /\ px = IdleQuery /\ co \in CorrelatedCalls /\ pt = IdleQuery
     \/ dw = IdleQuery /\ px = IdleQuery /\ co = IdleQuery /\ pt \in PatternCalls

NextQueries ==
  \/ DwellReturn
  \/ ProximityReturn
  \/ CorrelatedReturn
  \/ PatternReturn

SpecQueries == InitQueries /\ [][NextQueries]_vars

\* ------------------------------------------------------------------------
\* Properties
\* ------------------------------------------------------------------------
Timestamps(rows, mac) == {rows[i].timestamp : i \in {j \in 1..Len(rows) : rows[j].mac = mac}}

InFlight == {p \in Procs : calls[p].pc # "idle"}

RECURSIVE SumLen(_, _)
SumLen(f, S) ==
  IF S = {} THEN 0
  ELSE LET m == CHOOSE x \in S : TRUE IN Len(f[m]) + SumLen(f, S \ {m})

\* upsert_device calls that ended with an exception
FailedCalls == ncalls - Cardinality(InFlight) - SumLen(hist, Macs)

\* C1 (as stated): in every reachable state each Device row's total_sightings
\* equals the number of Sighting rows stored for its address
TotalSightingsEqualsRows ==
  \A m \in DOMAIN devices : devices[m].total_sightings = CountOf(sightings, m)

\* C1 (amended): each Device row's total_sightings equals the number of
\* Sighting rows stored for its address plus the number of rows of that
\* address cleanup_old_sightings has deleted
TotalSightingsCountsPrunedRows ==
  \A m \in DOMAIN devices :
    devices[m].total_sightings = CountOf(sightings, m) + pruned[m]

\* a row was pruned, a later sighting is stored and the operator has used a setter
PrunedThenRecorded ==
  \E m \in DOMAIN devices :
    /\ pruned[m] > 0
    /\ CountOf(sightings, m) > 0
    /\ human[m] # None

\* C2: for every address with at least one Sighting row, Device.last_seen
\* equals the maximum timestamp among that address's Sighting rows
LastSeenIsMaxTimestamp ==
  \A m \in DOMAIN devices :
    Timestamps(sightings, m) # {} =>
      devices[m].last_seen = Max(Timestamps(sightings, m))

\* the rollup columns of a row
Rollup(row) ==
  [vendor |-> row.vendor, service_uuids |-> row.service_uuids,
   bt_type |-> row.bt_type, device_class |-> row.device_class,
   total_sightings |-> row.total_sightings, last_seen |-> row.last_seen]

AsCall(h, found, row) ==
  [IdleCall EXCEPT !.vendor = h.vendor, !.service_uuids = h.service_uuids,
                   !.bt_type = h.bt_type, !.device_class = h.device_class,
                   !.now = h.now, !.is_new = ~found, !.existing = row]

\* the row left by the calls hs[order[1]], hs[order[2]], ... executed one
\* after another from position i on, row being the row before
RECURSIVE SerialRow(_, _, _, _, _)
SerialRow(hs, order, i, found, row) ==
  IF i > Len(hs) THEN row
  ELSE LET c == AsCall(hs[order[i]], found, row) IN
       SerialRow(hs, order, i + 1, TRUE,
                 IF found THEN UpdatedRow(row, c) ELSE InsertedRow(c))

\* C3: the Device rollup equals the rollup produced by executing the
\* committed upsert_device calls for the address one after another in some order
RollupIsSerialisable ==
  \A m \in DOMAIN devices :
    \E order \in Permutations(1..Len(hist[m])) :
      Rollup(devices[m]) = Rollup(SerialRow(hist[m], order, 1, FALSE, EmptyRow))

\* C4: upsert_device is all-or-nothing: the rows every connection reads hold
\* the rollup change and the Sighting row of exactly the committed calls, and
\* nothing of a call that failed or has not committed yet
AllOrNothing ==
  \A m \in Macs :
    /\ m \in DOMAIN devices <=> Len(hist[m]) > 0
    /\ m \in DOMAIN devices => devices[m].total_sightings = Len(hist[m])
    /\ CountOf(sightings, m) + pruned[m] = Len(hist[m])

\* a call has failed, another has committed, and a third has executed both of
\* its statements without having committed
FailedAndPending ==
  /\ FailedCalls > 0
  /\ lock # NoProc
  /\ wdevices # devices
  /\ wsightings # sightings
  /\ \E m \in DOMAIN devices : Len(hist[m]) > 0

\* C5: once a Device's vendor is non-null no later upsert_device call changes it
VendorNeverOverwritten ==
  [][\A m \in DOMAIN devices :
       devices[m].vendor # None => devices'[m].vendor = devices[m].vendor]_vars

\* C6: the Device's service_identifiers set equals the union of the
\* service_uuids of all committed upsert_device calls for the address
ServiceUuidsIsUnion ==
  \A m \in DOMAIN devices :
    devices[m].service_uuids =
      UNION {hist[m][i].service_uuids : i \in 1..Len(hist[m])}

\* the modes of the committed upsert_device calls for an address
Modes(m) == {hist[m][i].bt_type : i \in 1..Len(hist[m])}

LastSeenNeverDecreases ==
  [][\A m \in DOMAIN devices :
       devices'[m].last_seen >= devices[m].last_seen]_vars

\* C9: once the operator has set a Device's device_type, no write of the
\* 'list' command's auto-classification changes it
HumanKindKept ==
  \A m \in DOMAIN devices :
    human[m] # None => devices[m].device_type = human[m]

\* C10: classify_device with the vendor absent and a name present returns the
\* kind of the first name rule that matches, and unknown only when none matches
NameRulesApplyWithoutVendor ==
  (cl.pc = "returned" /\ ~Truthy(cl.vendor) /\ Truthy(cl.name)) =>
    cl.result = IF NameMatches(lower(cl.name)) # {}
                THEN NAME_RULES[Min(NameMatches(lower(cl.name)))][2]
                ELSE TYPE_UNKNOWN

\* ------------------------------------------------------------------------
\* get_dwell_time: the sessions the rows fall into, told from the rows alone
\* ------------------------------------------------------------------------
\* the indices i whose sighting is followed by a gap above the threshold
Breaks(rows, gap_threshold) ==
  {i \in 1..(Len(rows) - 1) : rows[i + 1] - rows[i] > gap_threshold}

RunStarts(rows, gap_threshold) ==
  {rows[1]} \cup {rows[i + 1] : i \in Breaks(rows, gap_threshold)}

RunEnds(rows, gap_threshold) ==
  {rows[Len(rows)]} \cup {rows[i] : i \in Breaks(rows, gap_threshold)}

Kth(S, k) == CHOOSE x \in S : Cardinality({y \in S : y <= x}) = k

RunSeconds(rows, gap_threshold, k) ==
  Kth(RunEnds(rows, gap_threshold), k) - Kth(RunStarts(rows, gap_threshold), k)

RECURSIVE SumRuns(_, _, _)
SumRuns(rows, gap_threshold, k) ==
  IF k = 0 THEN 0
  ELSE round(RunSeconds(rows, gap_threshold, k), 6)
         + SumRuns(rows, gap_threshold, k - 1)

RECURSIVE IdleSeconds(_, _, _)
IdleSeconds(rows, gap_threshold, i) ==
  IF i = 0 THEN 0
  ELSE (IF i \in Breaks(rows, gap_threshold) THEN rows[i + 1] - rows[i] ELSE 0)
         + IdleSeconds(rows, gap_threshold, i - 1)

SpanSeconds(rows) == rows[Len(rows)] - rows[1]

DwellThreshold == dw.gap_minutes * 60

\* C11: the sessions get_dwell_time returns are maximal runs of the ascending
\* rows: sightings next to each other inside a session are at most the
\* threshold apart (a gap equal to the threshold does not split), a session
\* starts and ends at a gap above the threshold or at the ends of the rows,
\* and minutes 0, 5, 10, 40, 45 with threshold 15 give [0,10] and [40,45].
SessionsAreMaximalRuns ==
  dw.pc = "returned" =>
    LET rows == dw.rows
        S == dw.result.sessions
        n == Len(rows)
    IN  /\ \A k \in 1..Len(S) :
             /\ \E i \in 1..n : rows[i] = S[k].start
             /\ \E i \in 1..n : rows[i] = S[k].end
             /\ S[k].start <= S[k].end
             /\ \A i \in 1..(n - 1) :
                  /\ (S[k].start <= rows[i] /\ rows[i + 1] <= S[k].end)
                       => rows[i + 1] - rows[i] <= DwellThreshold
                  /\ rows[i + 1] = S[k].start
                       => rows[i + 1] - rows[i] > DwellThreshold
                  /\ rows[i] = S[k].end
                       => rows[i + 1] - rows[i] > DwellThreshold
             /\ k < Len(S) =>
                  /\ S[k + 1].start - S[k].end > DwellThreshold
                  /\ \A i \in 1..n :
                       ~(S[k].end < rows[i] /\ rows[i] < S[k + 1].start)
        /\ n > 0 => Len(S) > 0 /\ S[Len(S)].end = rows[n]
        /\ dw.result.session_count <= RecentSessions =>
             \A i \in 1..n :
               \E k \in 1..Len(S) : S[k].start <= rows[i] /\ rows[i] <= S[k].end
        /\ (rows = <<0, 300, 600, 2400, 2700>> /\ dw.gap_minutes = 15) =>
             [k \in 1..Len(S) |-> <<S[k].start, S[k].end>>]
               = <<<<0, 600>>, <<2400, 2700>>>>

\* C11 witness: two sessions, one of which holds a gap equal to the threshold
EqualGapKept ==
  /\ dw.pc = "returned"
  /\ Len(dw.result.sessions) >= 2
  /\ \E k \in 1..Len(dw.result.sessions), i \in 1..(Len(dw.rows) - 1) :
       /\ dw.rows[i + 1] - dw.rows[i] = DwellThreshold
       /\ dw.result.sessions[k].start <= dw.rows[i]
       /\ dw.rows[i + 1] <= dw.result.sessions[k].end

\* C12 as stated: session_count equals the length of the returned list
SessionCountIsListLength ==
  dw.pc = "returned" =>
    dw.result.session_count = Len(dw.result.sessions)

\* C12: session_count is the number of sessions of the whole window, and the
\* returned list holds the last RecentSessions of them at most, so the two
\* are equal exactly when the window has no more than RecentSessions sessions.
SessionCountCountsAllRuns ==
  dw.pc = "returned" =>
    /\ dw.result.session_count =
         (IF dw.rows = <<>> THEN 0
          ELSE Cardinality(Breaks(dw.rows, DwellThreshold)) + 1)
    /\ Len(dw.result.sessions) = Min({dw.result.session_count, RecentSessions})

\* C12 witness: more sessions in the window than the list returns
MoreRunsThanListed ==
  /\ dw.pc = "returned"
  /\ dw.result.session_count > Len(dw.result.sessions)

\* C13: for non-empty rows, total_minutes (the sum of the session durations)
\* plus the idle time (the sum of the gaps between a session's end and the
\* next session's start) equals the span, last timestamp minus first.
DwellPlusIdleIsSpan ==
  (dw.pc = "returned" /\ dw.rows # <<>>) =>
    6 * dw.result.total_minutes
      + IdleSeconds(dw.rows, DwellThreshold, Len(dw.rows) - 1)
      = SpanSeconds(dw.rows)

\* C14: the returned list is the last RecentSessions = 10 sessions in
\* ascending order, and total_minutes, session_count, avg_session_minutes and
\* longest_session_minutes are taken over every session of the window.
RecentListAllStatistics ==
  (dw.pc = "returned" /\ dw.rows # <<>>) =>
    LET rows == dw.rows
        N == Cardinality(RunStarts(rows, DwellThreshold))
        shown == Min({N, RecentSessions})
        r == dw.result
    IN  /\ Len(r.sessions) = shown
        /\ \A j \in 1..shown :
             /\ r.sessions[j].start = Kth(RunStarts(rows, DwellThreshold), N - shown + j)
             /\ r.sessions[j].end = Kth(RunEnds(rows, DwellThreshold), N - shown + j)
             /\ r.sessions[j].duration_minutes
                  = round(RunSeconds(rows, DwellThreshold, N - shown + j), 6)
        /\ r.session_count = N
        /\ r.total_minutes = SumRuns(rows, DwellThreshold, N)
        /\ r.longest_session_minutes
             = Max({round(RunSeconds(rows, DwellThreshold, k), 6) : k \in 1..N})
        /\ 2 * Abs(r.avg_session_minutes * N - r.total_minutes) <= N

\* C14 witness: more than RecentSessions sessions, the older ones adding to
\* total_minutes
OlderSessionsCounted ==
  /\ dw.pc = "returned"
  /\ dw.result.session_count > RecentSessions
  /\ dw.result.total_minutes > SumDurations(dw.result.sessions)

\* ------------------------------------------------------------------------
\* get_proximity_stats
\* ------------------------------------------------------------------------
Zones == {"immediate", "near", "far", "remote"}

PercentSum ==
  px.result.zones_percent["immediate"] + px.result.zones_percent["near"]
    + px.result.zones_percent["far"] + px.result.zones_percent["remote"]

\* the number of non-null readings of at least lo dBm
CountFrom(readings, lo) ==
  Cardinality({i \in 1..Len(readings) :
                 readings[i] # NoneInt /\ readings[i] >= lo})

CountNotNull(readings) ==
  Cardinality({i \in 1..Len(readings) : readings[i] # NoneInt})

\* C16 as stated: with readings, the four percentages sum to within 0.1 of 100
PercentagesWithinOneTenth ==
  (px.pc = "returned" /\ px.result.total_readings > 0) =>
    Abs(PercentSum - 1000) <= 1

\* C16: with readings, each percentage is count / total * 100 rounded to one
\* decimal and the four sum to a value within 0.2 of 100.
PercentagesWithinTwoTenths ==
  (px.pc = "returned" /\ px.result.total_readings > 0) =>
    /\ \A z \in Zones :
         2 * Abs(px.result.zones_percent[z] * px.result.total_readings
                   - 1000 * px.result.zones[z]) <= px.result.total_readings
    /\ Abs(PercentSum - 1000) <= 2

\* C16 witness: readings whose percentages sum to 99.8 or to 100.2
PercentagesTwoTenthsOff ==
  /\ px.pc = "returned"
  /\ px.result.total_readings > 0
  /\ Abs(PercentSum - 1000) = 2

\* C17: dominant_zone has the greatest count, is the earliest such zone in
\* the order immediate, near, far, remote, and is 'unknown' exactly when
\* there are no readings.
DominantIsFirstMaximal ==
  px.pc = "returned" =>
    LET r == px.result
        order == [z \in Zones |->
                    CASE z = "immediate" -> 1 [] z = "near" -> 2
                      [] z = "far" -> 3 [] z = "remote" -> 4]
    IN  /\ r.dominant_zone = "unknown" <=> r.total_readings = 0
        /\ r.total_readings > 0 =>
             /\ r.dominant_zone \in Zones
             /\ \A z \in Zones :
                  /\ r.zones[z] <= r.zones[r.dominant_zone]
                  /\ r.zones[z] = r.zones[r.dominant_zone]
                       => order[r.dominant_zone] <= order[z]

\* C17 witness: near and far tie for the greatest count and near is returned
TieGoesToEarlierZone ==
  /\ px.pc = "returned"
  /\ px.result.zones["near"] = px.result.zones["far"]
  /\ px.result.zones["near"] > px.result.zones["immediate"]
  /\ px.result.zones["near"] > px.result.zones["remote"]
  /\ px.result.dominant_zone = "near"

\* C18: every integer reading falls in one zone by the thresholds -50, -65,
\* -80, a null reading in none, so the per-zone counts are the numbers of
\* readings in the four ranges and sum to total_readings, the number of
\* non-null readings.
ZonesPartitionReadings ==
  /\ \A r \in RssiInputs :
       rssi_to_proximity_zone(r) =
         (IF r >= -50 THEN "immediate"
          ELSE IF r >= -65 THEN "near"
          ELSE IF r >= -80 THEN "far" ELSE "remote")
  /\ rssi_to_proximity_zone(NoneInt) = "unknown"
  /\ px.pc = "returned" =>
       LET r == px.result
       IN  /\ r.zones["immediate"] = CountFrom(px.readings, -50)
           /\ r.zones["near"]
                = CountFrom(px.readings, -65) - CountFrom(px.readings, -50)
           /\ r.zones["far"]
                = CountFrom(px.readings, -80) - CountFrom(px.readings, -65)
           /\ r.zones["remote"]
                = CountNotNull(px.readings) - CountFrom(px.readings, -80)
           /\ r.total_readings = CountNotNull(px.readings)
           /\ r.total_readings = r.zones["immediate"] + r.zones["near"]
                                   + r.zones["far"] + r.zones["remote"]

\* C18 witness: a null reading among readings on every threshold
NullAmongThresholdReadings ==
  /\ px.pc = "returned"
  /\ \E i \in 1..Len(px.readings) : px.readings[i] = NoneInt
  /\ \A z \in Zones : px.result.zones[z] >= 1
  /\ px.result.total_readings = Len(px.readings) - 1

\* ------------------------------------------------------------------------
\* get_correlated_devices
\* ------------------------------------------------------------------------
\* C15: without data the queries return empty results: get_dwell_time of no
\* sightings gives total_minutes, session_count, avg_session_minutes and
\* longest_session_minutes 0 and no sessions; get_proximity_stats of no
\* readings gives counts and percentages 0 and total_readings 0;
\* get_correlated_devices of a target without sightings gives the empty list;
\* and each of the three calls returns.
ZeroDataReturnsZeros ==
  /\ (dw.pc = "called" /\ dw.rows = <<>>) => ENABLED DwellReturn
  /\ (dw.pc = "returned" /\ dw.rows = <<>>) =>
       dw.result = [total_minutes |-> 0, session_count |-> 0,
                    avg_session_minutes |-> 0, longest_session_minutes |-> 0,
                    sessions |-> <<>>]
  /\ (px.pc = "called" /\ CountNotNull(px.readings) = 0)
       => ENABLED ProximityReturn
  /\ (px.pc = "returned" /\ CountNotNull(px.readings) = 0) =>
       /\ \A z \in Zones :
            px.result.zones[z] = 0 /\ px.result.zones_percent[z] = 0
       /\ px.result.total_readings = 0
  /\ (co.pc = "called" /\ co.times[co.mac] = {}) => ENABLED CorrelatedReturn
  /\ (co.pc = "returned" /\ co.times[co.mac] = {}) => co.result = <<>>

\* C15 witness: get_dwell_time has returned for an address without sightings
NoSightingsReturned ==
  /\ dw.pc = "returned"
  /\ dw.rows = <<>>

TargetCount == Cardinality(co.times[co.mac])

\* C19: every returned entry has correlation_score = min(100, round(
\* co_occurrences / target sightings * 100)); the score lies in 0..100 and
\* does not decrease when the co-occurrence count grows.
ScoreIsCappedRatio ==
  co.pc = "returned" =>
    /\ \A i \in 1..Len(co.result) :
         LET e == co.result[i]
         IN  /\ e.correlation_score \in 0..100
             /\ \/ /\ e.correlation_score = 100
                   /\ 200 * e.co_occurrences >= 199 * TargetCount
                \/ /\ e.correlation_score < 100
                   /\ 2 * Abs(e.correlation_score * TargetCount
                                - 100 * e.co_occurrences) <= TargetCount
    /\ TargetCount > 0 =>
         \A c1, c2 \in 0..(2 * TargetCount + 1) :
           c1 <= c2 =>
             correlation(c1, TargetCount) <= correlation(c2, TargetCount)

\* C19 witness: an entry whose co-occurrence count exceeds the target's
\* sightings, scored 100, beside one scored below 100
ScoreCappedAndBelow ==
  /\ co.pc = "returned"
  /\ \E i, j \in 1..Len(co.result) :
       /\ co.result[i].co_occurrences > TargetCount
       /\ co.result[i].correlation_score = 100
       /\ co.result[j].correlation_score < 100

\* the target's sightings that have a sighting of other within the window
Shared(other) ==
  {t1 \in co.times[co.mac] :
     \E t2 \in co.times[other] : Abs(t1 - t2) <= co.window_minutes}

\* C20: a device that is not ignored and shares k >= 2 of the target's n
\* sightings is reported with correlation_score = round(k / n * 100).
SharedSightingsScored ==
  co.pc = "returned" =>
    \A other \in DOMAIN co.times \ {co.mac} :
      (~co.ignored[other] /\ Cardinality(Shared(other)) >= 2) =>
        \E i \in 1..Len(co.result) :
          /\ co.result[i].mac = other
          /\ co.result[i].correlation_score
               = round(100 * Cardinality(Shared(other)), TargetCount)

\* the pairs of a sighting of the target and a sighting of other that lie
\* within the window of each other
PairsWithin(other) ==
  Cardinality({p \in co.times[co.mac] \X co.times[other] :
                 Abs(p[1] - p[2]) <= co.window_minutes})

\* C21: the list holds at most 20 entries in non-increasing order of
\* co-occurrence count; no entry is the target, an ignored device or a device
\* with fewer than 2 co-occurrences; and every other device that is not
\* ignored and has 2 co-occurrences or more is listed unless 20 listed devices
\* have counts at least as high.
ListedAreCoOccurring ==
  co.pc = "returned" =>
    LET listed == {co.result[i].mac : i \in 1..Len(co.result)}
    IN  /\ Len(co.result) <= 20
        /\ \A i, j \in 1..Len(co.result) :
             i < j => PairsWithin(co.result[i].mac) >= PairsWithin(co.result[j].mac)
        /\ \A m \in listed :
             /\ m # co.mac
             /\ ~co.ignored[m]
             /\ PairsWithin(m) >= 2
        /\ \A m \in DOMAIN co.times \ {co.mac} :
             (~co.ignored[m] /\ PairsWithin(m) >= 2 /\ m \notin listed) =>
               /\ Len(co.result) = 20
               /\ \A n \in listed : PairsWithin(n) >= PairsWithin(m)

FrequencyLabels ==
  {"Constant", "Very frequent", "Daily", "Regular", "Occasional", "Rare"}

\* C22: with 5 sightings or more the descriptor begins with the one
\* frequency label of the average per day of the window asked for: Constant
\* >= 5, Very frequent >= 2, Daily >= 1, Regular >= 0.5, Occasional >= 0.15,
\* otherwise Rare; no later part is a frequency label.
FrequencyLabelByWindow ==
  (pt.pc = "returned" /\ pt.sighting_count >= 5) =>
    LET n == pt.sighting_count
        d == pt.days
        label == IF n >= 5 * d THEN "Constant"
                 ELSE IF n >= 2 * d THEN "Very frequent"
                 ELSE IF n >= d THEN "Daily"
                 ELSE IF 10 * n >= 5 * d THEN "Regular"
                 ELSE IF 100 * n >= 15 * d THEN "Occasional"
                 ELSE "Rare"
    IN  /\ pt.result[1] = label
        /\ \A i \in 2..Len(pt.result) : pt.result[i] \notin FrequencyLabels

\* C22 witness: 5 sightings a day or more, described as Constant followed by
\* a time of day
ConstantThenTimeOfDay ==
  /\ pt.pc = "returned"
  /\ pt.sighting_count >= 5 * pt.days
  /\ Len(pt.result) >= 3
  /\ pt.result[1] = "Constant"

\* ------------------------------------------------------------------------
\* Arguments of the queries
\* ------------------------------------------------------------------------
\* C23: a query called with a zero or negative gap threshold is rejected; it
\* never returns a normal (empty or computed) result.
NonPositiveGapRejected ==
  dw.pc = "returned" => dw.gap_minutes > 0

\* ------------------------------------------------------------------------
\* upsert_device: is_new
\* ------------------------------------------------------------------------
\* C25: a committed upsert_device call returns is_new = TRUE exactly when no
\* row of its address existed before it; it then is the first committed call
\* for the address, so at most one committed call per address returns TRUE,
\* also among concurrent calls; afterwards the address has its one row, and
\* rows never go away.
IsNewOncePerAddress ==
  [][/\ DOMAIN devices \subseteq DOMAIN devices'
     /\ \A p \in Procs :
          (calls[p].pc = "commit" /\ calls'[p].pc = "idle"
             /\ hist'[calls[p].mac] # hist[calls[p].mac]) =>
            /\ calls[p].is_new <=> calls[p].mac \notin DOMAIN devices
            /\ calls[p].is_new => hist[calls[p].mac] = <<>>
            /\ calls[p].mac \in DOMAIN devices']_vars

\* C25 witness: one of two concurrent calls that both found no row has
\* committed, the other is about to insert
SecondInsertAfterCommit ==
  \E p \in Procs :
    /\ calls[p].pc = "write"
    /\ calls[p].is_new
    /\ calls[p].mac \in DOMAIN devices
    /\ Len(hist[calls[p].mac]) = 1

\* ------------------------------------------------------------------------
\* upsert_device: calls for different addresses, and what a call leaves alone
\* ------------------------------------------------------------------------
\* C26: an upsert_device call for one address never waits for an in-progress
\* call for a different address: a call that is ready to write is never held
\* up by the write lock of a call for another address.
DifferentAddressesIndependent ==
  \A p, q \in Procs :
    (p # q /\ calls[p].pc = "write" /\ lock = q) => calls[q].mac = calls[p].mac

\* the columns upsert_device does not set on a row that exists
Kept_columns(row) ==
  <<row.first_seen, row.friendly_name, row.device_type, row.ignored,
    row.watched, row.group_id, row.notes>>

\* C27: a committed upsert_device call for an address that has a row leaves
\* the row's first_seen, friendly_name, device_type, ignored, watched,
\* group_id and notes as they were, and leaves every other row of devices
\* and every existing row of sightings unchanged.
UpsertLeavesOperatorColumns ==
  [][\A p \in Procs :
       (calls[p].pc = "commit" /\ calls'[p].pc = "idle"
          /\ hist'[calls[p].mac] # hist[calls[p].mac]
          /\ calls[p].mac \in DOMAIN devices) =>
         /\ Kept_columns(devices'[calls[p].mac]) = Kept_columns(devices[calls[p].mac])
         /\ \A m \in DOMAIN devices : m # calls[p].mac => devices'[m] = devices[m]
         /\ DOMAIN devices' = DOMAIN devices
         /\ Len(sightings') >= Len(sightings)
         /\ SubSeq(sightings', 1, Len(sightings)) = sightings]_vars

\* C27 witness: a call is about to commit for a watched, named row with
\* notes while the other address has a row too
CommitOnEditedRow ==
  \E p \in Procs :
    /\ calls[p].pc = "commit"
    /\ calls[p].mac \in DOMAIN devices
    /\ devices[calls[p].mac].watched
    /\ devices[calls[p].mac].notes = Desk
    /\ \E m \in DOMAIN devices : m # calls[p].mac /\ Len(sightings) >= 2

\* ------------------------------------------------------------------------
\* The control socket
\* ------------------------------------------------------------------------
\* C28: every request line a client sends is eventually answered with exactly
\* one response line, also a line that is not JSON, an unknown command and a
\* command whose handler raises.
EveryLineAnswered ==
  \A k \in 1..MaxSends :
    /\ (nsent >= k) ~> (answered[k] = 1)
    /\ [](answered[k] <= 1)

\* C29: a send_command call that returns a response returns the response to
\* the command this call sent.
OwnResponseReturned ==
  \A c \in Callers :
    (snd[c].pc = "returned" /\ ~snd[c].error) => snd[c].got = snd[c].id

\* ------------------------------------------------------------------------
\* The web server
\* ------------------------------------------------------------------------
\* C30: with authentication enabled, /api/devices answers a request that
\* carries no valid unexpired session token with 401 and reads no device
\* data.
DataEndpointNeedsSession ==
  (web.last.path = "/api/devices" /\ web.last.auth_enabled /\ ~web.last.valid) =>
    (web.last.status = 401 /\ ~web.last.data)

====
